---- MODULE Spec2Model ----
(***************************************************************************)
(* terraprint3d: the terrain-to-solid geometry pipeline.                   *)
(*                                                                         *)
(*   MeshGenerator                  src/terraprint3d/mesh/generator.py     *)
(*   MultiColorMeshGenerator        src/terraprint3d/mesh/multicolor.py    *)
(*   SimpleMultiColorMeshGenerator  src/terraprint3d/mesh/simple_multicolor.py *)
(*                                                                         *)
(* Lengths are integers counted in quanta of 0.0001 mm, so 0.001 is 10 and *)
(* 1.0 is 10000.  A division rounds its result to the nearest quantum      *)
(* (ties to even), the way a floating-point division rounds to the nearest *)
(* representable number; sums, differences and products of quanta are      *)
(* exact.                                                                  *)
(*                                                                         *)
(* A grid is a function on Cells(rows, cols), indexed [i, j] from 0 as the *)
(* numpy arrays are.  A vertex is <<i, j, z>>: x_grid[i, j] and            *)
(* y_grid[i, j] are carried as the cell they are read from.  A face is a   *)
(* triple of 0-based vertex indices; vertex k of a mesh is vertices[k+1].  *)
(* Meshes are recorded as they are constructed, before the trimesh library *)
(* (_validate_and_fix_mesh) touches them.                                  *)
(***************************************************************************)
EXTENDS Integers, Sequences, FiniteSets, TLC

VARIABLES
    rows,            \* shape of the grids handed to the generator
    cols,
    z_norm,          \* Z grid returned by _normalize_to_printer_bed (minimum 0)
    num_colors,      \* config.terrain.colors.num_colors
    colors_enabled,  \* config.terrain.colors.enabled
    pc,              \* position in the generation call
    vertices,        \* generate_mesh: the local vertices
    faces,           \* generate_mesh: the local faces
    grid_rows,       \* MeshGenerator._grid_rows (0: attribute not yet set)
    grid_cols,       \* MeshGenerator._grid_cols
    zones,           \* band list of the last _calculate_color_zones call
    footprint,       \* band index -> cells used to build that band's shell
    meshes,          \* the returned dict: layer name -> mesh
    path,            \* the generation entry point being followed
    layer_i,         \* loop index of the layer loop of that entry point
    log,             \* calls made so far, as <<mesh name, call>>
    output,          \* names of the meshes handed back so far
    config,          \* the Config fields beside colors.enabled and num_colors
    grids,           \* x_grid, y_grid (metres) and z_grid before normalising
    normalized,      \* what _normalize_to_printer_bed made of them
    elevation_grid,  \* the elevations fetched for the grid
    stepped,         \* twice the grid _apply_height_stepping returns
    vertex_colors,   \* the RGBA rows of _calculate_vertex_colors
    cache_files,     \* ElevationCache: cache key -> content of its .pkl file
    stored,          \* request -> grids of the cache_elevation_data calls
                     \* for it since the last clear_cache
    zero_filled,     \* request -> grids of its first fetch that had a
                     \* failed batch
    cache_call       \* the last call on the cache or the fetcher

\* the variables of the call-order view of the generators, of main, of the
\* coordinate mapper, of height stepping and of vertex colouring
\* the variables of the elevation cache and the fetcher
cache_state == <<cache_files, stored, zero_filled, cache_call>>

aux == <<path, layer_i, log, output, config, grids, normalized,
         elevation_grid, stepped, vertex_colors, cache_state>>

vars == <<rows, cols, z_norm, num_colors, colors_enabled, pc, vertices, faces,
          grid_rows, grid_cols, zones, footprint, meshes, aux>>

----------------------------------------------------------------------------
(* Bounds of the model *)

MaxRows == 3
MaxCols == 3
LayerMaxRows == 2
LayerMaxCols == 3
ZoneMaxRows == 2
ZoneMaxCols == 5
StepMaxRows == 2
StepMaxCols == 20
SessionMaxRows == 4
SessionMaxCols == 4

(* Program constants, in quanta of 0.0001 mm *)

BaseThickness == 50000
LayerThickness == 20000
VerticalExaggeration == 2
MinColors == 1
DefaultColors == 1
MaxColors == 6
BaseZoneMargin == 10000
ZoneOverlap == 10
LastZoneBuffer == 10000
ZoneLookupTolerance == 10
BaseMatchTolerance == 10
PrinterBed == 2200000
BedMargin == 200000

----------------------------------------------------------------------------
(* Grids *)

Cells(r, c) == (0 .. r - 1) \X (0 .. c - 1)

SetMin(S) == CHOOSE m \in S : \A x \in S : m <= x
SetMax(S) == CHOOSE m \in S : \A x \in S : x <= m

GridMin(g) == SetMin({g[x] : x \in DOMAIN g})
GridMax(g) == SetMax({g[x] : x \in DOMAIN g})

Abs(x) == IF x < 0 THEN -x ELSE x

\* n / d rounded to the nearest quantum, ties to even (n >= 0, d > 0)
Fl(n, d) ==
    LET q == n \div d
        r == n % d
    IN  IF 2 * r > d THEN q + 1
        ELSE IF 2 * r = d THEN q + (q % 2)
        ELSE q

----------------------------------------------------------------------------
(* MeshGenerator: SurfaceMesher and SolidBuilder *)

\* QuadFaces with the fourth corner read from the wrong column
QuadFaces_degenerate(i, j, c) ==
    LET v1 == i * c + j
        v2 == i * c + (j + 1)
        v3 == (i + 1) * c + j
        v4 == (i + 1) * c + j
    IN  << <<v1, v2, v3>>, <<v2, v4, v3>> >>

\* QuadFaces with the second triangle wound the other way
QuadFaces_flipped(i, j, c) ==
    LET v1 == i * c + j
        v2 == i * c + (j + 1)
        v3 == (i + 1) * c + j
        v4 == (i + 1) * c + (j + 1)
    IN  << <<v1, v2, v3>>, <<v2, v3, v4>> >>

\* the two triangles of quad (i, j), generator.py lines 128-135
QuadFaces(i, j, c) ==
    LET v1 == i * c + j
        v2 == i * c + (j + 1)
        v3 == (i + 1) * c + j
        v4 == (i + 1) * c + (j + 1)
    IN  << <<v1, v2, v3>>, <<v2, v4, v3>> >>

create_surface_mesh(r, c, zg) ==
    [ vertices |-> [k \in 1 .. r * c |->
                      <<(k - 1) \div c, (k - 1) % c,
                        zg[<<(k - 1) \div c, (k - 1) % c>>]>>],
      faces    |-> [n \in 1 .. 2 * (r - 1) * (c - 1) |->
                      LET q == (n - 1) \div 2
                      IN  QuadFaces(q \div (c - 1), q % (c - 1), c)
                              [((n - 1) % 2) + 1]] ]

\* get_ordered_boundary_indices with the bottom edge starting after the
\* right corner
boundary_indices_skip_corner(r, c) ==
    LET top    == [k \in 1 .. c |-> k - 1]
        right  == [k \in 1 .. (IF r > 2 THEN r - 2 ELSE 0) |->
                      k * c + (c - 1)]
        bottom == IF r > 1
                  THEN [k \in 1 .. c - 1 |-> (r - 1) * c + (c - 1 - k)]
                  ELSE << >>
        left   == [k \in 1 .. (IF r > 2 THEN r - 2 ELSE 0) |->
                      (r - 1 - k) * c]
    IN  top \o right \o bottom \o left

\* the loop with its left edge walked from the top down
boundary_indices_left_downwards(r, c) ==
    LET top    == [k \in 1 .. c |-> k - 1]
        right  == [k \in 1 .. (IF r > 2 THEN r - 2 ELSE 0) |->
                      k * c + (c - 1)]
        bottom == IF r > 1
                  THEN [k \in 1 .. c |-> (r - 1) * c + (c - k)]
                  ELSE << >>
        left   == [k \in 1 .. (IF r > 2 THEN r - 2 ELSE 0) |-> k * c]
    IN  top \o right \o bottom \o left

get_ordered_boundary_indices(r, c) ==
    LET top    == [k \in 1 .. c |-> k - 1]
        right  == [k \in 1 .. (IF r > 2 THEN r - 2 ELSE 0) |->
                      k * c + (c - 1)]
        bottom == IF r > 1
                  THEN [k \in 1 .. c |-> (r - 1) * c + (c - k)]
                  ELSE << >>
        left   == [k \in 1 .. (IF r > 2 THEN r - 2 ELSE 0) |->
                      (r - 1 - k) * c]
    IN  top \o right \o bottom \o left

\* the two wall triangles over boundary pair n, generator.py lines 158-171
WallFaces(boundary, n, nsurf) ==
    LET next_i == (n % Len(boundary)) + 1
        v1 == boundary[n]
        v2 == boundary[next_i]
        v3 == v1 + nsurf
        v4 == v2 + nsurf
    IN  << <<v1, v2, v3>>, <<v2, v4, v3>> >>

\* _add_base that copies the surface vertices without lowering them to Z = 0
add_base_floor_not_lowered(vs, fs, gr, gc) ==
    LET nsurf == Len(vs)
        boundary == get_ordered_boundary_indices(gr, gc)
        side_faces == [n \in 1 .. 2 * Len(boundary) |->
                         WallFaces(boundary, ((n - 1) \div 2) + 1, nsurf)
                             [((n - 1) % 2) + 1]]
        base_faces == [n \in 1 .. Len(fs) |->
                         <<fs[n][1] + nsurf, fs[n][3] + nsurf,
                           fs[n][2] + nsurf>>]
    IN  [ vertices |-> vs \o vs,
          faces    |-> fs \o side_faces \o base_faces ]

add_base(vs, fs, gr, gc) ==
    LET nsurf == Len(vs)
        base_vertices == [k \in 1 .. nsurf |-> <<vs[k][1], vs[k][2], 0>>]
        boundary == get_ordered_boundary_indices(gr, gc)
        side_faces == [n \in 1 .. 2 * Len(boundary) |->
                         WallFaces(boundary, ((n - 1) \div 2) + 1, nsurf)
                             [((n - 1) % 2) + 1]]
        base_faces == [n \in 1 .. Len(fs) |->
                         <<fs[n][1] + nsurf, fs[n][3] + nsurf,
                           fs[n][2] + nsurf>>]
    IN  [ vertices |-> vs \o base_vertices,
          faces    |-> fs \o side_faces \o base_faces ]

----------------------------------------------------------------------------
(* Mesh topology *)

DirectedEdges(f) == { <<f[1], f[2]>>, <<f[2], f[3]>>, <<f[3], f[1]>> }

UndirectedEdges(f) == { {f[1], f[2]}, {f[2], f[3]}, {f[3], f[1]} }

MeshEdges(fs) == UNION { UndirectedEdges(fs[n]) : n \in 1 .. Len(fs) }

\* indices of the faces that have e as an edge
FacesOn(fs, e) == { n \in 1 .. Len(fs) : e \in UndirectedEdges(fs[n]) }

EdgeManifold(fs) == \A e \in MeshEdges(fs) : Cardinality(FacesOn(fs, e)) = 2

\* no directed edge is traversed by two faces
ConsistentWinding(fs) ==
    \A m, n \in 1 .. Len(fs) :
        m # n => DirectedEdges(fs[m]) \cap DirectedEdges(fs[n]) = {}

----------------------------------------------------------------------------
(* Inputs: elevation fields that vary by column and by row *)

ColHeights == {0, 3, 40000}
RowHeights == {0, 20000}

TerrainGrids(r, c) ==
    { g \in { [x \in Cells(r, c) |-> cp[x[2]] + rp[x[1]]] :
                cp \in [0 .. c - 1 -> ColHeights],
                rp \in [0 .. r - 1 -> RowHeights] } :
        GridMin(g) = 0 }

AddThickness(g, t) == [x \in DOMAIN g |-> g[x] + t]

NoMeshes == [n \in {} |-> 0]

\* parser.py lines 25-49: the defaults, with explicit bounds
DefaultConfig ==
    [ address |-> FALSE, radius_km |-> -1,
      bounds |-> [given |-> TRUE, north |-> 1, south |-> 0,
                  east |-> 1, west |-> 0],
      color_mode |-> "elevation", hs_enabled |-> FALSE,
      step_height_mm |-> 20000, format |-> "stl",
      printer_bed_mm |-> PrinterBed,
      smooth_transitions |-> TRUE,
      vertical_exaggeration |-> VerticalExaggeration,
      base_thickness_mm |-> BaseThickness ]

NoGrids == [x |-> << >>, y |-> << >>, z |-> << >>]

\* mesh.visual.vertex_colors before any colour is assigned
NoColors == [rows |-> << >>, divided |-> FALSE]

NotNormalized ==
    [raised |-> FALSE, finite |-> TRUE, scale_factor |-> 0,
     x2 |-> << >>, y2 |-> << >>]

\* no call made yet on the cache or the fetcher
NoCall ==
    [op |-> "none", req |-> << >>, key |-> << >>, returned |-> << >>, found |-> "none",
     requests |-> 0, outcome |-> "none", cached |-> FALSE,
     later |-> FALSE]

\* ElevationCache.__init__ on a directory without .pkl files
CacheIdle ==
    /\ cache_files = << >>
    /\ stored = << >>
    /\ zero_filled = << >>
    /\ cache_call = NoCall

\* the call-order view at rest
AuxIdle ==
    /\ path = "none"
    /\ layer_i = 0
    /\ log = << >>
    /\ output = {}
    /\ config = DefaultConfig
    /\ grids = NoGrids
    /\ normalized = NotNormalized
    /\ elevation_grid = << >>
    /\ stepped = << >>
    /\ vertex_colors = NoColors
    /\ CacheIdle

----------------------------------------------------------------------------
(* MeshGenerator.generate_mesh, step by step *)

SolidInit ==
    /\ rows \in 2 .. MaxRows
    /\ cols \in 2 .. MaxCols
    /\ z_norm \in TerrainGrids(rows, cols)
    /\ num_colors = MinColors
    /\ colors_enabled = FALSE
    /\ pc = "start"
    /\ vertices = << >>
    /\ faces = << >>
    /\ grid_rows = 0
    /\ grid_cols = 0
    /\ zones = << >>
    /\ footprint = NoMeshes
    /\ meshes = NoMeshes
    /\ AuxIdle

\* generate_mesh lines 21-25: add the base thickness, build the open surface
CreateSurfaceMesh ==
    /\ pc = "start"
    /\ LET m == create_surface_mesh(rows, cols,
                                    AddThickness(z_norm, BaseThickness))
       IN  /\ vertices' = m.vertices
           /\ faces' = m.faces
    /\ pc' = "surface"
    /\ UNCHANGED <<rows, cols, z_norm, num_colors, colors_enabled,
                   grid_rows, grid_cols, zones, footprint, meshes, aux>>

\* generate_mesh lines 27-31: cache the grid shape, add walls and floor
AddBase ==
    /\ pc = "surface"
    /\ grid_rows' = rows
    /\ grid_cols' = cols
    /\ LET m == add_base(vertices, faces, rows, cols)
       IN  /\ vertices' = m.vertices
           /\ faces' = m.faces
    /\ pc' = "solid"
    /\ UNCHANGED <<rows, cols, z_norm, num_colors, colors_enabled,
                   zones, footprint, meshes, aux>>

SolidNext == CreateSurfaceMesh \/ AddBase

SolidSpec == SolidInit /\ [][SolidNext]_vars

----------------------------------------------------------------------------
(* ZonePartitioner.  A band list is a sequence of <<zone_min, zone_max>>;     *)
(* zones[k + 1] is the band with index k, zones[1] the base zone.           *)

ZoneMin(zs, k) == zs[k + 1][1]
ZoneMax(zs, k) == zs[k + 1][2]

\* MultiColorMeshGenerator._calculate_color_zones, color_mode "elevation"
Multi_calculate_color_zones(zg, n) ==
    LET min_elev == GridMin(zg)
        max_elev == GridMax(zg)
        zone_height == Fl(max_elev - min_elev, n)
        color(i) ==
            << min_elev + i * zone_height
                   - (IF i > 0 THEN ZoneOverlap ELSE 0),
               IF i = n - 1
               THEN max_elev + LastZoneBuffer
               ELSE min_elev + (i + 1) * zone_height + ZoneOverlap >>
    IN  << <<min_elev - BaseZoneMargin, max_elev + BaseZoneMargin>> >>
          \o [k \in 1 .. n |-> color(k - 1)]

\* _calculate_color_zones that numbers the colour bands from 1 where the
\* code numbers them from 0, so that every band lies one band height higher
zones_shifted_up(zg, n) ==
    LET min_z == GridMin(zg)
        max_z == GridMax(zg)
        zone_height == Fl(max_z - min_z, n)
    IN  << <<min_z, max_z>> >>
          \o [k \in 1 .. n |->
                <<min_z + k * zone_height, min_z + (k + 1) * zone_height>>]

\* SimpleMultiColorMeshGenerator._calculate_color_zones
Simple_calculate_color_zones(zg, n) ==
    LET min_z == GridMin(zg)
        max_z == GridMax(zg)
        zone_height == Fl(max_z - min_z, n)
    IN  << <<min_z, max_z>> >>
          \o [k \in 1 .. n |->
                <<min_z + (k - 1) * zone_height, min_z + k * zone_height>>]

\* the colour bands of zs that contain elevation e
BandsContaining(e, zs) ==
    { k \in 1 .. Len(zs) - 1 : ZoneMin(zs, k) <= e /\ e <= ZoneMax(zs, k) }

\* twice the distance from e to the centre of band k (halving is exact in
\* binary floating point, so the comparison of distances is that of their
\* doubles)
CentreDistance2(e, zs, k) == Abs(2 * e - (ZoneMin(zs, k) + ZoneMax(zs, k)))

\* the first band whose centre is nearest to e
NearestCentre(e, zs) ==
    SetMin({ k \in 1 .. Len(zs) - 1 :
               \A m \in 1 .. Len(zs) - 1 :
                   CentreDistance2(e, zs, k) <= CentreDistance2(e, zs, m) })

\* assign that returns the last band containing e instead of the first
assign_last_match(e, zs) ==
    IF BandsContaining(e, zs) # {}
    THEN SetMax(BandsContaining(e, zs))
    ELSE NearestCentre(e, zs)

\* assign that returns 0 ("no zone") when no band contains e
assign_no_fallback(e, zs) ==
    IF BandsContaining(e, zs) # {}
    THEN SetMin(BandsContaining(e, zs))
    ELSE 0

\* MultiColorMeshGenerator._assign_elevation_to_zone
Multi_assign_elevation_to_zone(e, zs) ==
    IF BandsContaining(e, zs) # {}
    THEN SetMin(BandsContaining(e, zs))
    ELSE NearestCentre(e, zs)

\* SimpleMultiColorMeshGenerator._assign_elevation_to_zone
Simple_assign_elevation_to_zone(e, zs) ==
    IF BandsContaining(e, zs) # {}
    THEN SetMin(BandsContaining(e, zs))
    ELSE NearestCentre(e, zs)

----------------------------------------------------------------------------
(* LayerSolidBuilder: colour shells over a footprint (a set of cells)       *)

CellSeq(r, c) == [k \in 1 .. r * c |-> <<(k - 1) \div c, (k - 1) % c>>]

QuadSeq(r, c) ==
    [k \in 1 .. (r - 1) * (c - 1) |->
        <<(k - 1) \div (c - 1), (k - 1) % (c - 1)>>]

\* the cells that get a vertex pair, in the order the loops visit them
IncludedSeq(r, c, mask) ==
    LET In(x) == x \in mask
    IN  SelectSeq(CellSeq(r, c), In)

\* vertex_indices[i, j]: index of the cell's top vertex, -1 without one;
\* the bottom vertex follows its top vertex
VertexIndex(c, mask, x) ==
    IF x \in mask
    THEN 2 * Cardinality({ y \in mask : y[1] * c + y[2] < x[1] * c + x[2] })
    ELSE -1

\* a top vertex and a bottom vertex per included cell
ShellVertices(r, c, mask, z_top, z_bottom) ==
    LET inc == IncludedSeq(r, c, mask)
    IN  [n \in 1 .. 2 * Len(inc) |->
           LET x == inc[(n + 1) \div 2]
           IN  <<x[1], x[2], IF n % 2 = 1 THEN z_top[x] ELSE z_bottom[x]>>]

\* the quads whose four corners all have vertices
FullQuads(r, c, mask) ==
    LET Full(q) == /\ <<q[1], q[2]>> \in mask
                   /\ <<q[1], q[2] + 1>> \in mask
                   /\ <<q[1] + 1, q[2]>> \in mask
                   /\ <<q[1] + 1, q[2] + 1>> \in mask
    IN  SelectSeq(QuadSeq(r, c), Full)

\* top and bottom triangles of a quad, from the indices of its top vertices
TopBottomFaces(v00, v01, v10, v11) ==
    << <<v00, v01, v10>>, <<v01, v11, v10>>,
       <<v00 + 1, v10 + 1, v01 + 1>>, <<v01 + 1, v10 + 1, v11 + 1>> >>

\* multicolor.py lines 460-462: the wall from vertex pair 1 to vertex pair 2
Multi_WallFaces(vt1, vt2) ==
    << <<vt1 + 1, vt1, vt2 + 1>>, <<vt1, vt2, vt2 + 1>> >>

\* multicolor.py lines 435-462: the twelve faces emitted for one full quad
Multi_QuadFaces(v00, v01, v10, v11) ==
    TopBottomFaces(v00, v01, v10, v11)
      \o Multi_WallFaces(v00, v01) \o Multi_WallFaces(v01, v11)
      \o Multi_WallFaces(v11, v10) \o Multi_WallFaces(v10, v00)

\* MultiColorMeshGenerator._create_color_layer_mesh
Multi_create_color_layer_mesh(r, c, z_top, z_bottom, mask) ==
    LET quads == FullQuads(r, c, mask)
        vi(i, j) == VertexIndex(c, mask, <<i, j>>)
    IN  [ vertices |-> ShellVertices(r, c, mask, z_top, z_bottom),
          faces    |-> [n \in 1 .. 12 * Len(quads) |->
                          LET q == quads[((n - 1) \div 12) + 1]
                          IN  Multi_QuadFaces(vi(q[1], q[2]),
                                              vi(q[1], q[2] + 1),
                                              vi(q[1] + 1, q[2]),
                                              vi(q[1] + 1, q[2] + 1))
                                  [((n - 1) % 12) + 1]] ]

\* simple_multicolor.py lines 557-577: the candidate walls, cell by cell,
\* first towards the right neighbour, then towards the neighbour below
WallSeq(r, c, mask) ==
    LET cand == [n \in 1 .. 2 * r * c |->
                    LET x == CellSeq(r, c)[(n + 1) \div 2]
                    IN  IF n % 2 = 1
                        THEN <<x, <<x[1], x[2] + 1>>, "right">>
                        ELSE <<x, <<x[1] + 1, x[2]>>, "below">>]
        Both(w) == w[1] \in mask /\ w[2] \in mask
    IN  SelectSeq(cand, Both)

Simple_WallFaces(curr_top, next_top, dir) ==
    IF dir = "right"
    THEN << <<curr_top + 1, curr_top, next_top + 1>>,
            <<curr_top, next_top, next_top + 1>> >>
    ELSE << <<curr_top + 1, next_top, curr_top>>,
            <<curr_top + 1, next_top + 1, next_top>> >>

\* SimpleMultiColorMeshGenerator._create_layer_faces
Simple_create_layer_faces(r, c, mask) ==
    LET quads == FullQuads(r, c, mask)
        walls == WallSeq(r, c, mask)
        vi(x) == VertexIndex(c, mask, x)
    IN  [n \in 1 .. 4 * Len(quads) |->
           LET q == quads[((n - 1) \div 4) + 1]
           IN  TopBottomFaces(vi(<<q[1], q[2]>>), vi(<<q[1], q[2] + 1>>),
                              vi(<<q[1] + 1, q[2]>>),
                              vi(<<q[1] + 1, q[2] + 1>>))
                   [((n - 1) % 4) + 1]]
        \o [n \in 1 .. 2 * Len(walls) |->
              LET w == walls[((n - 1) \div 2) + 1]
              IN  Simple_WallFaces(vi(w[1]), vi(w[2]), w[3])
                      [((n - 1) % 2) + 1]]

----------------------------------------------------------------------------
(* The multi-layer generators *)

LayerNames ==
    <<"layer00", "layer01", "layer02", "layer03", "layer04", "layer05",
      "layer06">>

\* f"layer{i:02d}"
LayerName(i) == LayerNames[i + 1]

LayerIndex(name) == CHOOSE i \in 0 .. MaxColors : LayerName(i) = name

\* multicolor.py lines 272-277: the first zone whose lower bound is within
\* the tolerance of target_zone_base, -1 for None
ZoneLookup(zs, target_zone_base) ==
    LET hits == { idx \in 0 .. Len(zs) - 1 :
                    Abs(ZoneMin(zs, idx) - target_zone_base)
                        < ZoneLookupTolerance }
    IN  IF hits = {} THEN -1 ELSE SetMin(hits)

\* MultiColorMeshGenerator._get_all_areas_for_color
Multi_get_all_areas_for_color(zg, zs, target_zone_base) ==
    LET target_zone_idx == ZoneLookup(zs, target_zone_base)
    IN  IF target_zone_idx = -1 THEN {}
        ELSE IF target_zone_idx = 0 THEN DOMAIN zg
        ELSE { x \in DOMAIN zg :
                 Multi_assign_elevation_to_zone(zg[x], zs) = target_zone_idx }

\* MultiColorMeshGenerator._generate_zone_mesh: [none |-> TRUE] for None
Multi_generate_zone_mesh(r, c, zg, zone_base_height, gr, gc) ==
    LET all_zones == Multi_calculate_color_zones(zg, num_colors)
        is_base_mesh ==
            Abs(zone_base_height - ZoneMin(all_zones, 0)) < BaseMatchTolerance
        base_height_grid ==
            [x \in DOMAIN zg |->
                IF zg[x] > BaseThickness THEN zg[x] ELSE BaseThickness]
        surface == create_surface_mesh(r, c, base_height_grid)
        color_areas_mask ==
            Multi_get_all_areas_for_color(zg, all_zones, zone_base_height)
        target_zone_idx == ZoneLookup(all_zones, zone_base_height)
        shell == Multi_create_color_layer_mesh(
                     r, c, AddThickness(zg, LayerThickness), zg,
                     color_areas_mask)
    IN  IF is_base_mesh
        THEN [ none |-> FALSE,
               mesh |-> add_base(surface.vertices, surface.faces, gr, gc) ]
        ELSE IF color_areas_mask = {} THEN [ none |-> TRUE ]
        ELSE IF target_zone_idx = -1 \/ target_zone_idx = 0
             THEN [ none |-> TRUE ]
        ELSE IF Len(shell.vertices) = 0 THEN [ none |-> TRUE ]
        ELSE [ none |-> FALSE, mesh |-> shell ]

\* SimpleMultiColorMeshGenerator._is_boundary_point
Simple_is_boundary_point(x, zg, zs, target_zone) ==
    \E di \in {-1, 0, 1}, dj \in {-1, 0, 1} :
        /\ ~(di = 0 /\ dj = 0)
        /\ <<x[1] + di, x[2] + dj>> \in DOMAIN zg
        /\ Simple_assign_elevation_to_zone(zg[<<x[1] + di, x[2] + dj>>], zs)
               = target_zone

\* simple_multicolor.py lines 477-492: the cells given a vertex pair
Simple_included_cells(zg, zs, zone_idx) ==
    { x \in DOMAIN zg :
        LET point_zone == Simple_assign_elevation_to_zone(zg[x], zs)
        IN  \/ point_zone = zone_idx
            \/ /\ point_zone > zone_idx
               /\ Simple_is_boundary_point(x, zg, zs, zone_idx) }

\* SimpleMultiColorMeshGenerator._create_color_layer: [none |-> TRUE] for None
Simple_create_color_layer(r, c, zg, zs, zone_idx) ==
    LET mask == Simple_included_cells(zg, zs, zone_idx)
        vs == ShellVertices(r, c, mask, AddThickness(zg, LayerThickness), zg)
    IN  IF Len(vs) = 0
        THEN [ none |-> TRUE ]
        ELSE [ none |-> FALSE,
               mesh |-> [ vertices |-> vs,
                          faces |-> Simple_create_layer_faces(r, c, mask) ] ]

LayerInit ==
    /\ rows \in 2 .. LayerMaxRows
    /\ cols \in 2 .. LayerMaxCols
    /\ z_norm \in TerrainGrids(rows, cols)
    /\ colors_enabled \in BOOLEAN
    /\ num_colors \in IF colors_enabled
                      THEN MinColors .. MaxColors
                      ELSE {DefaultColors}
    /\ pc = "start"
    /\ vertices = << >>
    /\ faces = << >>
    /\ grid_rows = 0
    /\ grid_cols = 0
    /\ zones = << >>
    /\ footprint = NoMeshes
    /\ meshes = NoMeshes
    /\ AuxIdle

\* MultiColorMeshGenerator.generate_multi_color_meshes
MultiGenerate ==
    /\ pc = "start"
    /\ IF ~colors_enabled
       THEN \* lines 17-20: generate_mesh, returned under the key "terrain"
            LET surface == create_surface_mesh(
                               rows, cols, AddThickness(z_norm, BaseThickness))
                solid == add_base(surface.vertices, surface.faces, rows, cols)
            IN  /\ meshes' = [name \in {"terrain"} |-> solid]
                /\ zones' = zones
                /\ footprint' = footprint
       ELSE LET z_grid_norm ==
                    [x \in DOMAIN z_norm |->
                        z_norm[x] * VerticalExaggeration + BaseThickness]
                color_zones == Multi_calculate_color_zones(z_grid_norm,
                                                           num_colors)
                zone_mask(i) ==
                    { x \in DOMAIN z_grid_norm :
                        /\ z_grid_norm[x] >= ZoneMin(color_zones, i)
                        /\ z_grid_norm[x] <= ZoneMax(color_zones, i) }
                called == { i \in 0 .. num_colors : zone_mask(i) # {} }
                zone_mesh(i) ==
                    Multi_generate_zone_mesh(rows, cols, z_grid_norm,
                                             ZoneMin(color_zones, i),
                                             rows, cols)
                kept == { i \in called : ~zone_mesh(i).none }
            IN  /\ zones' = color_zones
                /\ footprint' =
                       [i \in called \ {0} |->
                           Multi_get_all_areas_for_color(
                               z_grid_norm, color_zones,
                               ZoneMin(color_zones, i))]
                /\ meshes' = [name \in { LayerName(i) : i \in kept } |->
                                 zone_mesh(LayerIndex(name)).mesh]
    /\ grid_rows' = rows
    /\ grid_cols' = cols
    /\ pc' = "multi_done"
    /\ UNCHANGED <<rows, cols, z_norm, num_colors, colors_enabled,
                   vertices, faces, aux>>

\* SimpleMultiColorMeshGenerator.generate_multi_color_meshes
SimpleGenerate ==
    /\ pc = "start"
    /\ LET z_grid_norm == AddThickness(z_norm, LayerThickness)
           zs == Simple_calculate_color_zones(z_grid_norm, num_colors)
           surface == create_surface_mesh(rows, cols, z_grid_norm)
           base_mesh == add_base(surface.vertices, surface.faces, rows, cols)
           layer_mesh(i) ==
               Simple_create_color_layer(rows, cols, z_grid_norm, zs, i)
           kept == { i \in 1 .. num_colors : ~layer_mesh(i).none }
       IN  /\ zones' = zs
           /\ footprint' = [i \in 1 .. num_colors |->
                               Simple_included_cells(z_grid_norm, zs, i)]
           /\ meshes' = [name \in {"layer00"} \cup
                                    { LayerName(i) : i \in kept } |->
                            IF name = "layer00"
                            THEN base_mesh
                            ELSE layer_mesh(LayerIndex(name)).mesh]
    /\ grid_rows' = rows
    /\ grid_cols' = cols
    /\ pc' = "simple_done"
    /\ UNCHANGED <<rows, cols, z_norm, num_colors, colors_enabled,
                   vertices, faces, aux>>

LayerNext == MultiGenerate \/ SimpleGenerate

LayerSpec == LayerInit /\ [][LayerNext]_vars

\* the Z grid the generator that ran handed to its partitioner
LayerZ ==
    IF pc = "multi_done"
    THEN [x \in DOMAIN z_norm |->
             z_norm[x] * VerticalExaggeration + BaseThickness]
    ELSE AddThickness(z_norm, LayerThickness)

\* assign_zone of the generator that ran
AssignZone(e) ==
    IF pc = "multi_done"
    THEN Multi_assign_elevation_to_zone(e, zones)
    ELSE Simple_assign_elevation_to_zone(e, zones)

\* the multi-layer path has run to its end
LayersDone ==
    \/ pc = "multi_done" /\ colors_enabled
    \/ pc = "simple_done"

----------------------------------------------------------------------------
(* Claims about SurfaceMesher and SolidBuilder *)

\* C1: for every grid with rows, cols >= 2 the raw solid (surface, walls and
\* floor together, before repair) is edge-manifold: every undirected edge of
\* the mesh is an edge of exactly two faces.
C1_SolidEdgeManifold ==
    pc = "solid" => EdgeManifold(faces)

C1_Witness ==
    /\ pc = "solid"
    /\ rows = 3
    /\ cols = 3
    /\ Len(faces) = 32

\* C2: in the raw solid every edge shared by two faces is traversed in
\* opposite directions by the two faces (walls wound outward like the top
\* and the floor).
C2_SolidConsistentWinding ==
    pc = "solid" => ConsistentWinding(faces)

\* C3: the surface has rows*cols vertices in row-major order and
\* 2*(rows-1)*(cols-1) triangles, each with three pairwise distinct indices
\* in 0 .. rows*cols-1.
C3_SurfaceCounts ==
    pc = "surface" =>
        /\ Len(vertices) = rows * cols
        /\ \A x \in Cells(rows, cols) :
               vertices[x[1] * cols + x[2] + 1] =
                   <<x[1], x[2], z_norm[x] + BaseThickness>>
        /\ Len(faces) = 2 * (rows - 1) * (cols - 1)
        /\ \A n \in 1 .. Len(faces) :
               /\ \A k \in 1 .. 3 : faces[n][k] \in 0 .. rows * cols - 1
               /\ Cardinality({faces[n][1], faces[n][2], faces[n][3]}) = 3

C3_Witness ==
    /\ pc = "surface"
    /\ rows = 3
    /\ cols = 2
    /\ Len(faces) = 4
    /\ Len(vertices) = 6

\* the grid cell of surface vertex v
CellOf(v) == <<v \div cols, v % cols>>

\* an edge that runs along one side of the grid
OnPerimeter(e) ==
    \/ \A v \in e : CellOf(v)[1] = 0
    \/ \A v \in e : CellOf(v)[1] = rows - 1
    \/ \A v \in e : CellOf(v)[2] = 0
    \/ \A v \in e : CellOf(v)[2] = cols - 1

\* the grid edges and the one diagonal of every quad
GridEdges ==
    { {i * cols + j, i * cols + j + 1} :
          i \in 0 .. rows - 1, j \in 0 .. cols - 2 }
    \cup { {i * cols + j, (i + 1) * cols + j} :
          i \in 0 .. rows - 2, j \in 0 .. cols - 1 }
    \cup { {i * cols + j + 1, (i + 1) * cols + j} :
          i \in 0 .. rows - 2, j \in 0 .. cols - 2 }

\* twice the signed area of face f in the (column, row) plane
SignedArea(f) ==
    LET x(v) == CellOf(v)[2]
        y(v) == CellOf(v)[1]
    IN  (x(f[2]) - x(f[1])) * (y(f[3]) - y(f[1]))
          - (x(f[3]) - x(f[1])) * (y(f[2]) - y(f[1]))

\* C4: in the open surface every interior grid edge and quad diagonal is an
\* edge of exactly 2 triangles, which traverse it in opposite directions,
\* every perimeter edge is an edge of exactly 1 triangle, and all triangles
\* have one orientation.
C4_SurfaceEdges ==
    pc = "surface" =>
        /\ MeshEdges(faces) = GridEdges
        /\ \A e \in GridEdges :
               IF OnPerimeter(e)
               THEN Cardinality(FacesOn(faces, e)) = 1
               ELSE /\ Cardinality(FacesOn(faces, e)) = 2
                    /\ \A m, n \in FacesOn(faces, e) :
                           m # n => DirectedEdges(faces[m])
                                      \cap DirectedEdges(faces[n]) = {}
        /\ \A n \in 1 .. Len(faces) : SignedArea(faces[n]) = 1

C4_Witness ==
    /\ pc = "surface"
    /\ rows = 3
    /\ cols = 3
    /\ \E e \in GridEdges : ~OnPerimeter(e) /\ Cardinality(FacesOn(faces, e)) = 2
    /\ \E e \in GridEdges : OnPerimeter(e) /\ Cardinality(FacesOn(faces, e)) = 1

----------------------------------------------------------------------------
(* Claims about ZonePartitioner and LayerSolidBuilder *)

\* elevations tried against the band list: the grid's values, both ends of
\* every band and their neighbours, and values far outside the grid's range
Probes ==
    { LayerZ[x] : x \in DOMAIN LayerZ }
    \cup UNION { { zones[n][1] - 1, zones[n][1], zones[n][1] + 1,
                   zones[n][2] - 1, zones[n][2], zones[n][2] + 1 } :
                 n \in 1 .. Len(zones) }
    \cup { GridMin(LayerZ) - 30000, GridMax(LayerZ) + 30000 }

\* the cells the partitioner assigns to band k
AssignedCells(k) == { x \in DOMAIN LayerZ : AssignZone(LayerZ[x]) = k }

\* the colour shells of the output set
ShellNames == DOMAIN meshes \ {"layer00", "terrain"}

UsedVertices(fs) ==
    UNION { {fs[n][1], fs[n][2], fs[n][3]} : n \in 1 .. Len(fs) }

\* a closed shell: it has faces, every vertex is a corner of a face, and
\* every undirected edge is an edge of exactly two faces
Watertight(m) ==
    /\ Len(m.faces) > 0
    /\ UsedVertices(m.faces) = 0 .. Len(m.vertices) - 1
    /\ EdgeManifold(m.faces)

\* C5: every colour shell (band k >= 1) is watertight on its own for any
\* footprint: every undirected edge of the raw shell mesh is an edge of
\* exactly two faces and no vertex is left without a face.
C5_ShellsWatertight ==
    LayersDone => \A name \in ShellNames : Watertight(meshes[name])

BandHeight == Fl(GridMax(LayerZ) - GridMin(LayerZ), num_colors)

\* the boundary between band k and band k + 1
Boundary(k) == GridMin(LayerZ) + k * BandHeight

\* the widening applied to the shared end of two adjacent bands
BandOverlap == IF pc = "multi_done" THEN ZoneOverlap ELSE 0

\* an elevation contained in several bands gets the lowest-indexed of them
LowestBandWins ==
    \A e \in Probes \cup { Boundary(k) : k \in 1 .. num_colors - 1 } :
        BandsContaining(e, zones) # {} =>
            /\ AssignZone(e) \in BandsContaining(e, zones)
            /\ \A m \in BandsContaining(e, zones) : AssignZone(e) <= m

C8_BandsCover ==
    LayersDone =>
        /\ ZoneMin(zones, 1) <= GridMin(LayerZ)
        /\ ZoneMax(zones, num_colors) >= GridMax(LayerZ)
        /\ \A k \in 1 .. num_colors - 1 :
               ZoneMin(zones, k + 1) <= ZoneMax(zones, k)
        /\ \A v \in Probes :
               GridMin(LayerZ) <= v /\ v <= GridMax(LayerZ) =>
                   BandsContaining(v, zones) # {}

\* C9: in MultiColorMeshGenerator the footprint used to build the shell of
\* band k is exactly the set of cells whose assign_zone result is k.
C9_FootprintIsAssignment ==
    pc = "multi_done" /\ colors_enabled =>
        \A k \in DOMAIN footprint : footprint[k] = AssignedCells(k)

\* C10: the output set has an entry for band k >= 1 if and only if at least
\* one grid cell is assigned to band k, and the base entry layer00 is always
\* present.
C10_LayerPresence ==
    LayersDone =>
        /\ "layer00" \in DOMAIN meshes
        /\ \A k \in 1 .. num_colors :
               LayerName(k) \in DOMAIN meshes <=> AssignedCells(k) # {}

----------------------------------------------------------------------------
(* MeshRepairer and the order of calls on every generation path.  The      *)
(* geometry is abstracted away here: what the trimesh library reports      *)
(* (watertight or not, winding consistent or not) and whether a colour     *)
(* layer has any vertex are free choices.                                   *)

RepairMaxColors == 2

Paths == {"generate_mesh", "create_colored_mesh", "multi", "simple"}

\* the calls that construct geometry
GeometryCalls ==
    {"_create_surface_mesh", "_add_base", "_create_color_layer_mesh",
     "_create_layer_faces", "Trimesh"}

\* _validate_and_fix_mesh that gives up on a mesh hole filling cannot close
validate_raises_when_open(open, still_open, inconsistent) ==
    IF open /\ still_open
    THEN [ calls |-> <<"merge_vertices", "remove_duplicate_faces",
                       "remove_degenerate_faces", "fill_holes">>,
           returned |-> FALSE ]
    ELSE [ calls |-> <<"merge_vertices", "remove_duplicate_faces",
                       "remove_degenerate_faces">>
                     \o (IF open THEN <<"fill_holes">> ELSE << >>)
                     \o <<"is_winding_consistent">>
                     \o (IF inconsistent THEN <<"fix_normals">> ELSE << >>)
                     \o <<"return">>,
           returned |-> TRUE ]

\* MeshGenerator._validate_and_fix_mesh: the calls it makes, given what
\* is_watertight reports before and after fill_holes and what
\* is_winding_consistent reports
validate_and_fix_mesh(open, still_open, inconsistent) ==
    [ calls |-> <<"merge_vertices", "remove_duplicate_faces",
                  "remove_degenerate_faces">>
                \o (IF open
                    THEN <<"fill_holes">>
                           \o (IF still_open
                               THEN <<"warn_not_watertight">> ELSE << >>)
                    ELSE << >>)
                \o <<"is_winding_consistent">>
                \o (IF inconsistent THEN <<"fix_normals">> ELSE << >>)
                \o <<"return">>,
      returned |-> TRUE ]

\* the calls tagged with the mesh they are made for
Tag(name, calls) == [n \in 1 .. Len(calls) |-> <<name, calls[n]>>]

\* generate_mesh lines 25-39, _create_base_layer and the base branch of
\* _generate_zone_mesh: surface, base, Trimesh, repair
solid_calls(r) == <<"_create_surface_mesh", "_add_base", "Trimesh">> \o r.calls

\* a colour layer: its faces, Trimesh, repair
layer_calls(r) ==
    <<IF path = "multi" THEN "_create_color_layer_mesh"
                         ELSE "_create_layer_faces",
      "Trimesh">> \o r.calls

RepairInit ==
    /\ rows = 2
    /\ cols = 2
    /\ z_norm = [x \in Cells(2, 2) |-> 0]
    /\ colors_enabled \in BOOLEAN
    /\ num_colors \in MinColors .. RepairMaxColors
    /\ pc = "start"
    /\ vertices = << >>
    /\ faces = << >>
    /\ grid_rows = 0
    /\ grid_cols = 0
    /\ zones = << >>
    /\ footprint = NoMeshes
    /\ meshes = NoMeshes
    /\ path \in Paths
    /\ layer_i = 0
    /\ log = << >>
    /\ output = {}
    /\ config = DefaultConfig
    /\ grids = NoGrids
    /\ normalized = NotNormalized
    /\ elevation_grid = << >>
    /\ stepped = << >>
    /\ vertex_colors = NoColors
    /\ CacheIdle

\* MeshGenerator.generate_mesh, also as called by create_colored_mesh and by
\* MultiColorMeshGenerator with colours disabled
GenerateMeshCall ==
    /\ pc = "start"
    /\ \/ path \in {"generate_mesh", "create_colored_mesh"}
       \/ path = "multi" /\ ~colors_enabled
    /\ \E open, still_open, inconsistent \in BOOLEAN :
          LET r == validate_and_fix_mesh(open, still_open, inconsistent)
              colouring ==
                  IF path = "create_colored_mesh" /\ colors_enabled
                       /\ r.returned
                  THEN <<"_calculate_vertex_colors">> ELSE << >>
          IN  /\ log' = log \o Tag("terrain", solid_calls(r) \o colouring)
              /\ output' = IF r.returned THEN {"terrain"} ELSE {}
              /\ pc' = IF r.returned THEN "returned" ELSE "raised"
    /\ UNCHANGED <<rows, cols, z_norm, num_colors, colors_enabled, vertices,
                   faces, grid_rows, grid_cols, zones, footprint, meshes,
                   path, layer_i, config, grids, normalized,
                   elevation_grid, stepped, vertex_colors,
                   cache_state>>

\* the base mesh of the layered generators: zone 0 of MultiColorMeshGenerator
\* (colours enabled), _create_base_layer of SimpleMultiColorMeshGenerator
BaseLayer ==
    /\ pc = "start"
    /\ \/ path = "multi" /\ colors_enabled
       \/ path = "simple"
    /\ \E open, still_open, inconsistent \in BOOLEAN :
          LET r == validate_and_fix_mesh(open, still_open, inconsistent)
          IN  /\ log' = log \o Tag("layer00", solid_calls(r))
              /\ output' = IF r.returned THEN {"layer00"} ELSE {}
              /\ pc' = IF r.returned THEN "layers" ELSE "raised"
    /\ layer_i' = 1
    /\ UNCHANGED <<rows, cols, z_norm, num_colors, colors_enabled, vertices,
                   faces, grid_rows, grid_cols, zones, footprint, meshes,
                   path, config, grids, normalized,
                   elevation_grid, stepped, vertex_colors,
                   cache_state>>

\* one pass of the layer loop: the layer is skipped (no cell, no vertex:
\* None) or built, repaired and stored
ColorLayer ==
    /\ pc = "layers"
    /\ layer_i <= num_colors
    /\ \E built, open, still_open, inconsistent \in BOOLEAN :
          LET r == validate_and_fix_mesh(open, still_open, inconsistent)
          IN  IF built
              THEN /\ log' = log \o Tag(LayerName(layer_i), layer_calls(r))
                   /\ output' = IF r.returned
                                THEN output \cup {LayerName(layer_i)}
                                ELSE output
                   /\ pc' = IF r.returned THEN "layers" ELSE "raised"
              ELSE UNCHANGED <<log, output, pc>>
    /\ layer_i' = layer_i + 1
    /\ UNCHANGED <<rows, cols, z_norm, num_colors, colors_enabled, vertices,
                   faces, grid_rows, grid_cols, zones, footprint, meshes,
                   path, config, grids, normalized,
                   elevation_grid, stepped, vertex_colors,
                   cache_state>>

\* the loop is over: return meshes
ReturnMeshes ==
    /\ pc = "layers"
    /\ layer_i > num_colors
    /\ pc' = "returned"
    /\ UNCHANGED <<rows, cols, z_norm, num_colors, colors_enabled, vertices,
                   faces, grid_rows, grid_cols, zones, footprint, meshes, aux>>

RepairNext == GenerateMeshCall \/ BaseLayer \/ ColorLayer \/ ReturnMeshes

RepairSpec == RepairInit /\ [][RepairNext]_vars

\* the calls logged for mesh name, in order
CallsFor(name) ==
    LET Mine(e) == e[1] = name
        mine == SelectSeq(log, Mine)
    IN  [n \in 1 .. Len(mine) |-> mine[n][2]]

Positions(calls, c) == { n \in 1 .. Len(calls) : calls[n] = c }

\* C12: on every generation path a mesh that was constructed is handed back
\* (never dropped, no path ends in an exception), its repair starts after
\* its last geometry construction call and ends before it is handed back,
\* and the winding check runs after hole filling, also when the mesh is
\* still open.
C12_RepairBeforeReturn ==
    /\ pc # "raised"
    /\ \A e \in { log[n] : n \in 1 .. Len(log) } :
           e[2] = "Trimesh" => e[1] \in output
    /\ \A name \in output :
           LET calls == CallsFor(name)
           IN  /\ Cardinality(Positions(calls, "merge_vertices")) = 1
               /\ Cardinality(Positions(calls, "is_winding_consistent")) = 1
               /\ Cardinality(Positions(calls, "return")) = 1
               /\ \A g \in GeometryCalls :
                      \A n \in Positions(calls, g),
                         m \in Positions(calls, "merge_vertices") : n < m
               /\ \A n \in Positions(calls, "fill_holes")
                             \cup Positions(calls, "warn_not_watertight"),
                     m \in Positions(calls, "is_winding_consistent") : n < m
               /\ \A n \in Positions(calls, "is_winding_consistent")
                             \cup Positions(calls, "fix_normals"),
                     m \in Positions(calls, "return") : n < m

C12_Witness ==
    /\ pc = "returned"
    /\ path = "simple"
    /\ "layer01" \in output
    /\ Positions(CallsFor("layer01"), "warn_not_watertight") # {}
    /\ Positions(CallsFor("layer00"), "fix_normals") # {}

----------------------------------------------------------------------------
(* Config.validate and main.  In config, address tells whether an address  *)
(* is given, radius_km is -1 for None, bounds.given tells whether bounds    *)
(* are given; latitudes and longitudes are whole degrees.                   *)

ConfigNumColors == {0, 1, 6, 7}
ConfigStepHeights == {-20000, 0, 20000}

BoundsConfigs ==
    { b \in [given : BOOLEAN, north : 0 .. 1, south : 0 .. 1,
             east : 0 .. 1, west : 0 .. 1] :
        b.given \/ (b.north = 0 /\ b.south = 0 /\ b.east = 0 /\ b.west = 0) }

Configs ==
    [ address : BOOLEAN, radius_km : {-1, 5}, bounds : BoundsConfigs,
      color_mode : {"elevation", "contour"}, hs_enabled : BOOLEAN,
      step_height_mm : ConfigStepHeights, format : {"stl", "3mf", "ply"},
      printer_bed_mm : {PrinterBed},
      smooth_transitions : {TRUE},
      vertical_exaggeration : {VerticalExaggeration},
      base_thickness_mm : {BaseThickness} ]

\* Config.validate: the message of the ValueError it raises, "ok" if none
validate(cfg, enabled, n) ==
    IF ~cfg.address /\ ~cfg.bounds.given
    THEN "Either address or bounds must be specified"
    ELSE IF cfg.address /\ cfg.radius_km = -1
    THEN "radius_km must be specified when using address"
    ELSE IF cfg.bounds.given /\ cfg.address
    THEN "Cannot specify both address and bounds"
    ELSE IF cfg.bounds.given /\ cfg.bounds.north <= cfg.bounds.south
    THEN "North bound must be greater than south bound"
    ELSE IF cfg.bounds.given /\ cfg.bounds.east <= cfg.bounds.west
    THEN "East bound must be greater than west bound"
    ELSE IF enabled /\ ~(MinColors <= n /\ n <= MaxColors)
    THEN "Number of colors must be between 1 and 6"
    ELSE IF enabled /\ cfg.color_mode \notin {"elevation", "slope"}
    THEN "Color mode must be 'elevation' or 'slope'"
    ELSE IF cfg.hs_enabled /\ cfg.step_height_mm <= 0
    THEN "Step height must be positive"
    ELSE IF cfg.format \notin {"stl", "3mf", "amf", "obj"}
    THEN "Output format must be one of: stl, 3mf, amf, obj"
    ELSE "ok"

ConfigInit ==
    /\ rows = 2
    /\ cols = 2
    /\ z_norm = [x \in Cells(2, 2) |-> 0]
    /\ colors_enabled \in BOOLEAN
    /\ num_colors \in ConfigNumColors
    /\ pc = "start"
    /\ vertices = << >>
    /\ faces = << >>
    /\ grid_rows = 0
    /\ grid_cols = 0
    /\ zones = << >>
    /\ footprint = NoMeshes
    /\ meshes = NoMeshes
    /\ path = "none"
    /\ layer_i = 0
    /\ log = << >>
    /\ output = {}
    /\ config \in Configs
    /\ grids = NoGrids
    /\ normalized = NotNormalized
    /\ elevation_grid = << >>
    /\ stepped = << >>
    /\ vertex_colors = NoColors
    /\ CacheIdle

MainUnchanged ==
    UNCHANGED <<rows, cols, z_norm, num_colors, colors_enabled, vertices,
                faces, grid_rows, grid_cols, zones, footprint, meshes,
                layer_i, output, config, grids, normalized,
                   elevation_grid, stepped, vertex_colors,
                   cache_state>>

\* main lines 44-46: load the configuration and validate it; a ValueError
\* ends main (lines 215-216)
LoadAndValidate ==
    /\ pc = "start"
    /\ LET result == validate(config, colors_enabled, num_colors)
       IN  IF result = "ok"
           THEN /\ pc' = "validated"
                /\ log' = log
           ELSE /\ pc' = "aborted"
                /\ log' = Append(log, <<"main", result>>)
    /\ path' = path
    /\ MainUnchanged

\* main lines 55-68: the generator for the output format and the flags
ChooseGenerator ==
    /\ pc = "validated"
    /\ path' = IF config.format \in {"3mf", "amf", "obj"} /\ colors_enabled
               THEN "create_colored_mesh"
               ELSE IF colors_enabled \/ config.hs_enabled
               THEN "simple"
               ELSE "generate_mesh"
    /\ pc' = "chosen"
    /\ log' = log
    /\ MainUnchanged

\* main lines 70-95: geocode an address (needs the API key, may fail), then
\* fetch the elevation grid
FetchElevation ==
    /\ pc = "chosen"
    /\ \E geocoded \in BOOLEAN :
          IF config.address /\ ~geocoded
          THEN /\ pc' = "aborted"
               /\ log' = Append(log, <<"main", "geocoding failed">>)
          ELSE /\ pc' = "fetched"
               /\ log' = Append(log, <<"main", "fetch_elevation_grid">>)
    /\ path' = path
    /\ MainUnchanged

\* main lines 101-170: generate with the chosen generator and save
GenerateAndExport ==
    /\ pc = "fetched"
    /\ log' = log \o << <<"main", path>>, <<"main", "export">> >>
    /\ pc' = "done"
    /\ path' = path
    /\ MainUnchanged

ConfigNext ==
    LoadAndValidate \/ ChooseGenerator \/ FetchElevation \/ GenerateAndExport

ConfigSpec == ConfigInit /\ [][ConfigNext]_vars

\* the configuration is one the specification calls invalid
InvalidConfig ==
    \/ num_colors < MinColors
    \/ num_colors > MaxColors
    \/ config.step_height_mm <= 0
    \/ config.bounds.given /\ config.bounds.north <= config.bounds.south
    \/ config.bounds.given /\ config.bounds.east <= config.bounds.west

\* C13: for every configuration with num_colors outside 1..6, a step height
\* that is not positive, or bounds with north <= south or east <= west, main
\* never gets past validation: nothing is fetched, generated or exported,
\* whatever colors.enabled and height_stepping.enabled are.
C13_InvalidConfigStops ==
    InvalidConfig =>
        /\ pc \in {"start", "aborted"}
        /\ \A n \in 1 .. Len(log) :
               log[n][2] \notin {"fetch_elevation_grid", "export"} \cup Paths

----------------------------------------------------------------------------
(* GridCoordinateMapper: MeshGenerator._normalize_to_printer_bed.  The      *)
(* input grids are in whole metres, the scale factor in quanta per metre.   *)
(* The centring offset is a halving, so the X and Y it returns are carried  *)
(* doubled (x2 = 2 * x_grid_norm).  Dividing by a zero extent does not      *)
(* raise in numpy: it yields inf, and 0 * inf is nan.                       *)

Inf == 2000000000
NaN == -2000000000

Spacings == {0, 1, 3, 7}
BedSizes == {PrinterBed, 1200000}

\* n / d as numpy computes it for n > 0
Quot(n, d) == IF d = 0 THEN Inf ELSE Fl(n, d)

\* a * s for a >= 0, where s may be inf
Times(a, s) == IF s = Inf THEN (IF a = 0 THEN NaN ELSE Inf) ELSE a * s

Min2(a, b) == IF a <= b THEN a ELSE b
Max2(a, b) == IF a >= b THEN a ELSE b

\* MeshGenerator._normalize_to_printer_bed
normalize_to_printer_bed(xg, yg, zg, printer_bed_mm) ==
    LET x_range == GridMax(xg) - GridMin(xg)
        y_range == GridMax(yg) - GridMin(yg)
        bed_size == printer_bed_mm - BedMargin
        scale_factor == Min2(Quot(bed_size, x_range), Quot(bed_size, y_range))
        x_norm == [c \in DOMAIN xg |-> Times(xg[c] - GridMin(xg), scale_factor)]
        y_norm == [c \in DOMAIN yg |-> Times(yg[c] - GridMin(yg), scale_factor)]
    IN  IF scale_factor = Inf
        THEN \* both extents are zero: every X and Y is 0 * inf
             [ raised |-> FALSE, finite |-> FALSE, scale_factor |-> Inf,
               x2 |-> [c \in DOMAIN xg |-> NaN],
               y2 |-> [c \in DOMAIN yg |-> NaN],
               z  |-> [c \in DOMAIN zg |->
                          Times(zg[c] - GridMin(zg), scale_factor)] ]
        ELSE [ raised |-> FALSE, finite |-> TRUE,
               scale_factor |-> scale_factor,
               x2 |-> [c \in DOMAIN xg |->
                          2 * x_norm[c] + (printer_bed_mm - GridMax(x_norm))],
               y2 |-> [c \in DOMAIN yg |->
                          2 * y_norm[c] + (printer_bed_mm - GridMax(y_norm))],
               z  |-> [c \in DOMAIN zg |->
                          Times(zg[c] - GridMin(zg), scale_factor)] ]

\* grids as np.meshgrid and _latlon_to_meters lay them out: X varies by
\* column, Y by row, both evenly spaced around the centre
MeterGrids(r, c) ==
    { [ x |-> [p \in Cells(r, c) |-> p[2] * dx - x0],
        y |-> [p \in Cells(r, c) |-> p[1] * dy - y0],
        z |-> [p \in Cells(r, c) |-> p[2] * dzc + p[1] * dzr + z0] ] :
      dx \in Spacings, dy \in Spacings, x0 \in {0, 5}, y0 \in {0, 5},
      dzc \in 0 .. 1, dzr \in 0 .. 1, z0 \in {0, 100} }

NormalizeInit ==
    /\ rows \in 2 .. MaxRows
    /\ cols \in 2 .. MaxCols
    /\ z_norm = [x \in Cells(rows, cols) |-> 0]
    /\ colors_enabled = FALSE
    /\ num_colors = DefaultColors
    /\ pc = "start"
    /\ vertices = << >>
    /\ faces = << >>
    /\ grid_rows = 0
    /\ grid_cols = 0
    /\ zones = << >>
    /\ footprint = NoMeshes
    /\ meshes = NoMeshes
    /\ path = "none"
    /\ layer_i = 0
    /\ log = << >>
    /\ output = {}
    /\ \E b \in BedSizes : config = [DefaultConfig EXCEPT !.printer_bed_mm = b]
    /\ grids \in MeterGrids(rows, cols)
    /\ normalized = NotNormalized
    /\ elevation_grid = << >>
    /\ stepped = << >>
    /\ vertex_colors = NoColors
    /\ CacheIdle

\* generate_mesh line 19: normalise the metric grids
Normalize ==
    /\ pc = "start"
    /\ LET result == normalize_to_printer_bed(grids.x, grids.y, grids.z,
                                              config.printer_bed_mm)
       IN  /\ normalized' = [ raised |-> result.raised,
                              finite |-> result.finite,
                              scale_factor |-> result.scale_factor,
                              x2 |-> result.x2, y2 |-> result.y2 ]
           /\ z_norm' = result.z
           /\ pc' = IF result.raised THEN "aborted" ELSE "normalized"
    /\ UNCHANGED <<rows, cols, num_colors, colors_enabled, vertices, faces,
                   grid_rows, grid_cols, zones, footprint, meshes,
                   path, layer_i, log, output, config, grids,
                   elevation_grid, stepped, vertex_colors,
                   cache_state>>

NormalizeNext == Normalize

NormalizeSpec == NormalizeInit /\ [][NormalizeNext]_vars

XExtent == GridMax(grids.x) - GridMin(grids.x)
YExtent == GridMax(grids.y) - GridMin(grids.y)

\* C14: whenever the X extent or the Y extent of the input is zero the
\* mapper fails with an error: it returns no grid, and in particular none
\* computed with an infinite or undefined scale factor.
C14_ZeroExtentFails ==
    pc # "start" /\ (XExtent = 0 \/ YExtent = 0) =>
        /\ normalized.raised
        /\ pc = "aborted"

\* C15: for non-zero extents X and Y are scaled by one factor, every X and
\* Y lies in [10, printer_bed_mm - 10], the X range and the Y range are
\* symmetric about printer_bed_mm / 2, and the larger of the two extents is
\* exactly printer_bed_mm - 20.
C15_FitsBed ==
    pc # "start" /\ XExtent > 0 /\ YExtent > 0 =>
        LET bed == config.printer_bed_mm
            x2 == normalized.x2
            y2 == normalized.y2
            corner == <<0, 0>>
        IN  /\ pc = "normalized"
            /\ \A p \in Cells(rows, cols) :
                   /\ x2[p] - x2[corner] =
                          2 * normalized.scale_factor
                            * (grids.x[p] - grids.x[corner])
                   /\ y2[p] - y2[corner] =
                          2 * normalized.scale_factor
                            * (grids.y[p] - grids.y[corner])
                   /\ BedMargin <= x2[p] /\ x2[p] <= 2 * bed - BedMargin
                   /\ BedMargin <= y2[p] /\ y2[p] <= 2 * bed - BedMargin
            /\ GridMin(x2) + GridMax(x2) = 2 * bed
            /\ GridMin(y2) + GridMax(y2) = 2 * bed
            /\ Max2(GridMax(x2) - GridMin(x2), GridMax(y2) - GridMin(y2))
                   = 2 * (bed - BedMargin)

----------------------------------------------------------------------------
(* The base offset of the metric Z grid.                                    *)

\* C16: in every generation path the metric Z grid handed to the mesher or
\* the partitioner has its minimum exactly at base_thickness_mm, so a flat
\* grid gives a top surface at Z = base_thickness_mm throughout.
C16_BaseOffset ==
    LayersDone =>
        /\ GridMin(LayerZ) = BaseThickness
        /\ (GridMin(z_norm) = GridMax(z_norm) =>
                \A x \in DOMAIN LayerZ : LayerZ[x] = BaseThickness)

----------------------------------------------------------------------------
(* ZonePartitioner on its own: _calculate_color_zones of either generator   *)
(* on the Z grid that generator hands to it, over wider grids (ramps of up  *)
(* to ZoneMaxCols columns).                                                  *)

ColumnSteps == {0, 1, 3, 250000}
RowSteps == {0, 20000}

\* grids rising evenly from west to east and from north to south
RampGrids(r, c) ==
    { [x \in Cells(r, c) |-> x[2] * dc + x[1] * dr] :
        dc \in ColumnSteps, dr \in RowSteps }

ZoneInit ==
    /\ rows \in 2 .. ZoneMaxRows
    /\ cols \in 2 .. ZoneMaxCols
    /\ z_norm \in RampGrids(rows, cols)
    /\ colors_enabled = TRUE
    /\ num_colors \in MinColors .. MaxColors
    /\ pc = "start"
    /\ vertices = << >>
    /\ faces = << >>
    /\ grid_rows = 0
    /\ grid_cols = 0
    /\ zones = << >>
    /\ footprint = NoMeshes
    /\ meshes = NoMeshes
    /\ AuxIdle

\* multicolor.py lines 27-33
Multi_CalculateZones ==
    /\ pc = "start"
    /\ zones' = Multi_calculate_color_zones(
                    [x \in DOMAIN z_norm |->
                        z_norm[x] * VerticalExaggeration + BaseThickness],
                    num_colors)
    /\ pc' = "multi_zones"
    /\ UNCHANGED <<rows, cols, z_norm, num_colors, colors_enabled, vertices,
                   faces, grid_rows, grid_cols, footprint, meshes, aux>>

\* simple_multicolor.py lines 16-26
Simple_CalculateZones ==
    /\ pc = "start"
    /\ zones' = Simple_calculate_color_zones(
                    AddThickness(z_norm, LayerThickness), num_colors)
    /\ pc' = "simple_zones"
    /\ UNCHANGED <<rows, cols, z_norm, num_colors, colors_enabled, vertices,
                   faces, grid_rows, grid_cols, footprint, meshes, aux>>

ZoneNext == Multi_CalculateZones \/ Simple_CalculateZones

ZoneSpec == ZoneInit /\ [][ZoneNext]_vars

Partitioned == pc \in {"multi_zones", "simple_zones"}

\* the Z grid the bands were computed from
PartitionZ ==
    IF pc = "multi_zones"
    THEN [x \in DOMAIN z_norm |->
             z_norm[x] * VerticalExaggeration + BaseThickness]
    ELSE AddThickness(z_norm, LayerThickness)

\* _assign_elevation_to_zone of the generator whose bands these are
Band(e) ==
    IF pc = "multi_zones"
    THEN Multi_assign_elevation_to_zone(e, zones)
    ELSE Simple_assign_elevation_to_zone(e, zones)

----------------------------------------------------------------------------
(* HeightStepper: MultiColorMeshGenerator._apply_height_stepping.           *)
(* Elevations and the step height are in quanta of 0.0001.  The smooth      *)
(* branch halves, so the grid returned is carried doubled.                  *)

StepHeights == {20000, 100000}
Exaggerations == {1, 2}

\* elevation grids rising evenly from west to east and from north to south
ElevationGrids(r, c) ==
    { [x \in Cells(r, c) |-> e0 + x[2] * dc + x[1] * dr] :
        e0 \in {0, 1000000}, dc \in {0, 30000, 50000, 70000},
        dr \in {0, 10000} }

\* np.round of the quotient n / d: nearest integer, halves to the even one
np_round(n, d) == Fl(n, d)

\* np.linspace(start, stop, num)[i]
linspace(start, stop, num, i) ==
    IF num = 1 \/ i = 0
    THEN start
    ELSE IF i = num - 1
         THEN stop
         ELSE start + i * Fl(stop - start, num - 1)

\* line 65
StepHeight(cfg) == Fl(cfg.step_height_mm, cfg.vertical_exaggeration)

\* _apply_height_stepping, times two
apply_height_stepping(eg, cfg) ==
    LET step_height == StepHeight(cfg)
        min_elev == GridMin(eg)
        max_elev == GridMax(eg)
        num_steps == ((max_elev - min_elev) \div step_height) + 1
        level(i) == linspace(min_elev, max_elev, num_steps, i)
        masks(x) == { i \in 0 .. num_steps - 2 :
                        eg[x] >= level(i) /\ eg[x] < level(i + 1) }
    IN  IF cfg.smooth_transitions
        THEN [x \in DOMAIN eg |->
                 IF masks(x) = {}
                 THEN 2 * eg[x]
                 ELSE LET i == SetMax(masks(x))
                      IN  level(i) + level(i + 1)]
        ELSE [x \in DOMAIN eg |->
                 2 * (np_round(eg[x] - min_elev, step_height) * step_height
                        + min_elev)]

SteppingInit ==
    /\ rows \in 2 .. StepMaxRows
    /\ cols \in 2 .. StepMaxCols
    /\ z_norm = [x \in Cells(rows, cols) |-> 0]
    /\ colors_enabled = TRUE
    /\ num_colors = DefaultColors
    /\ pc = "start"
    /\ vertices = << >>
    /\ faces = << >>
    /\ grid_rows = 0
    /\ grid_cols = 0
    /\ zones = << >>
    /\ footprint = NoMeshes
    /\ meshes = NoMeshes
    /\ path = "none"
    /\ layer_i = 0
    /\ log = << >>
    /\ output = {}
    /\ \E sh \in StepHeights, ve \in Exaggerations, sm \in BOOLEAN :
           config = [DefaultConfig EXCEPT !.hs_enabled = TRUE,
                                          !.step_height_mm = sh,
                                          !.vertical_exaggeration = ve,
                                          !.smooth_transitions = sm]
    /\ grids = NoGrids
    /\ normalized = NotNormalized
    /\ elevation_grid \in ElevationGrids(rows, cols)
    /\ stepped = << >>
    /\ vertex_colors = NoColors
    /\ CacheIdle

\* multicolor.py lines 23-24
ApplyHeightStepping ==
    /\ pc = "start"
    /\ config.hs_enabled
    /\ stepped' = apply_height_stepping(elevation_grid, config)
    /\ pc' = "stepped"
    /\ UNCHANGED <<rows, cols, z_norm, num_colors, colors_enabled, vertices,
                   faces, grid_rows, grid_cols, zones, footprint, meshes,
                   path, layer_i, log, output, config, grids, normalized,
                   elevation_grid, vertex_colors,
                   cache_state>>

SteppingNext == ApplyHeightStepping

SteppingSpec == SteppingInit /\ [][SteppingNext]_vars

\* C18: sharp stepping floors: each output is the largest step level not
\* above its input, so output <= e and e - output < step_height in every
\* cell; a ramp covering 0..95 with step_height 10 and vertical
\* exaggeration 1 comes out with exactly 10 distinct levels.
C18_SharpFloors ==
    pc = "stepped" /\ ~config.smooth_transitions =>
        /\ \A x \in DOMAIN elevation_grid :
               /\ stepped[x] <= 2 * elevation_grid[x]
               /\ 2 * elevation_grid[x] - stepped[x] < 2 * StepHeight(config)
        /\ ( /\ GridMin(elevation_grid) = 0
             /\ GridMax(elevation_grid) = 950000
             /\ StepHeight(config) = 100000 )
               => Cardinality({ stepped[x] : x \in DOMAIN stepped }) = 10

\* C19: smooth stepping replaces every cell, those at the global maximum
\* too, by the midpoint of the interval of width step_height that encloses
\* it, so each output is a step midpoint at most step_height / 2 from its
\* input.
C19_SmoothMidpoints ==
    pc = "stepped" /\ config.smooth_transitions =>
        LET step_height == StepHeight(config)
            min_elev == GridMin(elevation_grid)
            last == (GridMax(elevation_grid) - min_elev) \div step_height
        IN  \A x \in DOMAIN elevation_grid :
                /\ Abs(stepped[x] - 2 * elevation_grid[x]) <= step_height
                /\ \E k \in 0 .. last :
                       /\ min_elev + k * step_height <= elevation_grid[x]
                       /\ elevation_grid[x] < min_elev + (k + 1) * step_height
                       /\ stepped[x] = 2 * (min_elev + k * step_height)
                                         + step_height

----------------------------------------------------------------------------
(* VertexColorAssigner: ColoredMeshExporter.create_colored_mesh.            *)
(* Elevations are in quanta of 0.0001 m; the planar extent is taken to be   *)
(* printer_bed_mm - 20 metres, which makes scale_factor 1 mm per metre.     *)
(* The solid's vertices are those generate_mesh builds, before repair.      *)

ColorExaggerations == {0, 1, 2}
ColorBaseThicknesses == {0, BaseThickness}

ColorElevationGrids(r, c) ==
    { [x \in Cells(r, c) |-> 1000000 + x[2] * dc + x[1] * dr] :
        dc \in {0, 10000, 400000}, dr \in {0, 200000} }

\* _generate_elevation_colors for num_colors = 1 .. 6, as the doubles of
\* lines 74-91 truncate (entry 5 of 6 has green 149: 255 * (1 - 0.14/0.34)
\* falls just below 150)
GeneratedPalettes ==
    << << <<0, 0, 255, 255>> >>,
       << <<0, 0, 255, 255>>, <<255, 0, 0, 255>> >>,
       << <<0, 0, 255, 255>>, <<131, 255, 0, 255>>, <<255, 0, 0, 255>> >>,
       << <<0, 0, 255, 255>>, <<2, 255, 0, 255>>, <<255, 250, 0, 255>>,
          <<255, 0, 0, 255>> >>,
       << <<0, 0, 255, 255>>, <<0, 193, 61, 255>>, <<131, 255, 0, 255>>,
          <<255, 187, 0, 255>>, <<255, 0, 0, 255>> >>,
       << <<0, 0, 255, 255>>, <<0, 154, 100, 255>>, <<54, 255, 0, 255>>,
          <<208, 255, 0, 255>>, <<255, 149, 0, 255>>, <<255, 0, 0, 255>> >> >>

\* _get_color_palette with no color_names configured
get_color_palette(n) == GeneratedPalettes[n]

\* np.clip(v, lo, hi)
Clip(v, lo, hi) == IF v < lo THEN lo ELSE IF v > hi THEN hi ELSE v

\* _calculate_vertex_colors that paints a degenerate solid with the last
\* palette entry
vertex_colors_last_entry(vs, eg, palette, base_thickness_mm) ==
    LET elev_range == GridMax(eg) - GridMin(eg)
        z_coords == [k \in 1 .. Len(vs) |-> vs[k][3] - base_thickness_mm]
        z_min == SetMin({ z_coords[k] : k \in 1 .. Len(vs) })
        z_max == SetMax({ z_coords[k] : k \in 1 .. Len(vs) })
        z_range == z_max - z_min
        n == Len(palette)
    IN  IF elev_range = 0 \/ z_range = 0
        THEN [ rows |-> [k \in 1 .. Len(vs) |-> palette[n]],
               divided |-> FALSE ]
        ELSE [ rows |-> [k \in 1 .. Len(vs) |->
                           palette[Clip(((z_coords[k] - z_min) * n)
                                            \div z_range, 0, n - 1) + 1]],
               divided |-> TRUE ]

\* _calculate_vertex_colors that spreads the normalised heights over P - 1
\* buckets instead of P
vertex_colors_short_scale(vs, eg, palette, base_thickness_mm) ==
    LET elev_range == GridMax(eg) - GridMin(eg)
        z_coords == [k \in 1 .. Len(vs) |-> vs[k][3] - base_thickness_mm]
        z_min == SetMin({ z_coords[k] : k \in 1 .. Len(vs) })
        z_max == SetMax({ z_coords[k] : k \in 1 .. Len(vs) })
        z_range == z_max - z_min
        n == Len(palette)
    IN  IF elev_range = 0 \/ z_range = 0
        THEN [ rows |-> [k \in 1 .. Len(vs) |-> palette[1]],
               divided |-> FALSE ]
        ELSE [ rows |-> [k \in 1 .. Len(vs) |->
                           palette[Clip(((z_coords[k] - z_min) * (n - 1))
                                            \div z_range, 0, n - 1) + 1]],
               divided |-> TRUE ]

\* ColoredMeshExporter._calculate_vertex_colors; "divided" records whether
\* the normalising division of line 137 was reached
calculate_vertex_colors(vs, eg, palette, base_thickness_mm) ==
    LET elev_range == GridMax(eg) - GridMin(eg)
        z_coords == [k \in 1 .. Len(vs) |-> vs[k][3] - base_thickness_mm]
        z_min == SetMin({ z_coords[k] : k \in 1 .. Len(vs) })
        z_max == SetMax({ z_coords[k] : k \in 1 .. Len(vs) })
        z_range == z_max - z_min
        n == Len(palette)
    IN  IF elev_range = 0
        THEN [ rows |-> [k \in 1 .. Len(vs) |-> palette[1]],
               divided |-> FALSE ]
        ELSE IF z_range = 0
        THEN [ rows |-> [k \in 1 .. Len(vs) |-> palette[1]],
               divided |-> FALSE ]
        ELSE [ rows |-> [k \in 1 .. Len(vs) |->
                           palette[Clip(((z_coords[k] - z_min) * n)
                                            \div z_range, 0, n - 1) + 1]],
               divided |-> TRUE ]

ColorInit ==
    /\ rows \in 2 .. MaxRows
    /\ cols \in 2 .. MaxCols
    /\ z_norm = [x \in Cells(rows, cols) |-> 0]
    /\ colors_enabled \in BOOLEAN
    /\ num_colors \in IF colors_enabled
                      THEN MinColors .. MaxColors
                      ELSE {DefaultColors}
    /\ pc = "start"
    /\ vertices = << >>
    /\ faces = << >>
    /\ grid_rows = 0
    /\ grid_cols = 0
    /\ zones = << >>
    /\ footprint = NoMeshes
    /\ meshes = NoMeshes
    /\ path = "none"
    /\ layer_i = 0
    /\ log = << >>
    /\ output = {}
    /\ \E ve \in ColorExaggerations, bt \in ColorBaseThicknesses :
           config = [DefaultConfig EXCEPT !.format = "3mf",
                                          !.vertical_exaggeration = ve,
                                          !.base_thickness_mm = bt]
    /\ grids = NoGrids
    /\ normalized = NotNormalized
    /\ elevation_grid \in ColorElevationGrids(rows, cols)
    /\ stepped = << >>
    /\ vertex_colors = NoColors
    /\ CacheIdle

\* create_colored_mesh: generate_mesh, then the vertex colours when colours
\* are enabled
CreateColoredMesh ==
    /\ pc = "start"
    /\ LET z_grid == [x \in DOMAIN elevation_grid |->
                         elevation_grid[x] * config.vertical_exaggeration]
           z_grid_norm == [x \in DOMAIN z_grid |-> z_grid[x] - GridMin(z_grid)]
           surface == create_surface_mesh(
                          rows, cols,
                          AddThickness(z_grid_norm, config.base_thickness_mm))
           solid == add_base(surface.vertices, surface.faces, rows, cols)
       IN  /\ z_norm' = z_grid_norm
           /\ vertices' = solid.vertices
           /\ faces' = solid.faces
           /\ IF ~colors_enabled
              THEN /\ vertex_colors' = vertex_colors
                   /\ pc' = "uncolored"
              ELSE /\ vertex_colors' =
                          calculate_vertex_colors(
                              solid.vertices, elevation_grid,
                              get_color_palette(num_colors),
                              config.base_thickness_mm)
                   /\ pc' = "colored"
    /\ grid_rows' = rows
    /\ grid_cols' = cols
    /\ UNCHANGED <<rows, cols, num_colors, colors_enabled, zones, footprint,
                   meshes, path, layer_i, log, output, config, grids,
                   normalized, elevation_grid, stepped,
                   cache_state>>

ColorNext == CreateColoredMesh

ColorSpec == ColorInit /\ [][ColorNext]_vars

\* the Z values of the solid's vertices all coincide
VertexZFlat == \A k, m \in 1 .. Len(vertices) : vertices[k][3] = vertices[m][3]

\* C20: when the elevation grid has zero range, or the Z values of the
\* solid's vertices have zero range, every vertex gets palette entry 0, the
\* normalising division is not performed, and the colour array has one
\* RGBA row per vertex.
C20_DegenerateColors ==
    pc = "colored" =>
        /\ Len(vertex_colors.rows) = Len(vertices)
        /\ (GridMin(elevation_grid) = GridMax(elevation_grid) \/ VertexZFlat)
               => /\ \A k \in 1 .. Len(vertices) :
                         vertex_colors.rows[k] =
                             get_color_palette(num_colors)[1]
                  /\ ~vertex_colors.divided

\* a flat grid, several colours: all vertices carry the first palette entry
C20_Witness ==
    /\ pc = "colored"
    /\ GridMin(elevation_grid) = GridMax(elevation_grid)
    /\ num_colors > 1
    /\ Len(vertex_colors.rows) = Len(vertices)
    /\ Len(vertices) = 2 * rows * cols
    /\ \A k \in 1 .. Len(vertices) :
           vertex_colors.rows[k] = <<0, 0, 255, 255>>
    /\ ~vertex_colors.divided

----------------------------------------------------------------------------
(* The colour buckets of a solid with a Z range.                            *)

\* the place in the palette of the colour given to vertex k
ColorIndex(k) ==
    CHOOSE i \in 0 .. num_colors - 1 :
        get_color_palette(num_colors)[i + 1] = vertex_colors.rows[k]

VertexZMin == SetMin({ vertices[k][3] : k \in 1 .. Len(vertices) })
VertexZMax == SetMax({ vertices[k][3] : k \in 1 .. Len(vertices) })

----------------------------------------------------------------------------
(* One generator instance called again and again.  The only attributes an   *)
(* instance writes after construction are _grid_rows and _grid_cols; every  *)
(* other value of a call is a local.  A call is followed step by step up to *)
(* the base solid, the one piece that reads the cached dimensions.          *)

SessionPaths == {"generate_mesh", "multi", "simple"}

SessionGrids(r, c) ==
    { [x \in Cells(r, c) |-> x[2] * dz] : dz \in {0, 20000} }

\* the assignment that keeps the dimensions of the instance's first call
keep_first_dimensions(cached, shape) ==
    IF cached = <<0, 0>> THEN shape ELSE cached

\* self._grid_rows, self._grid_cols = x_grid_norm.shape
store_grid_dimensions(cached, shape) == shape

\* the Z grid the base solid of the call is built over
SessionZ ==
    IF path = "generate_mesh" THEN AddThickness(z_norm, BaseThickness)
    ELSE IF path = "multi"
    THEN [x \in DOMAIN z_norm |->
             LET z == z_norm[x] * VerticalExaggeration + BaseThickness
             IN  IF z > BaseThickness THEN z ELSE BaseThickness]
    ELSE AddThickness(z_norm, LayerThickness)

SessionInit ==
    /\ rows = 2
    /\ cols = 2
    /\ z_norm = [x \in Cells(2, 2) |-> 0]
    /\ colors_enabled = TRUE
    /\ num_colors = DefaultColors
    /\ pc = "idle"
    /\ vertices = << >>
    /\ faces = << >>
    /\ grid_rows = 0
    /\ grid_cols = 0
    /\ zones = << >>
    /\ footprint = NoMeshes
    /\ meshes = NoMeshes
    /\ AuxIdle

SessionUnchanged ==
    UNCHANGED <<num_colors, colors_enabled, zones, footprint, meshes,
                layer_i, output, config, grids, normalized,
                elevation_grid, stepped, vertex_colors,
                   cache_state>>

\* a caller hands the instance a new grid; log keeps the shape of the call
\* before
BeginCall ==
    /\ pc \in {"idle", "returned"}
    /\ \E p \in SessionPaths, r \in 2 .. SessionMaxRows,
          c \in 2 .. SessionMaxCols :
           /\ path' = p
           /\ rows' = r
           /\ cols' = c
           /\ z_norm' \in SessionGrids(r, c)
    /\ log' = IF pc = "returned" THEN << <<rows, cols>> >> ELSE log
    /\ vertices' = << >>
    /\ faces' = << >>
    /\ pc' = "called"
    /\ UNCHANGED <<grid_rows, grid_cols>>
    /\ SessionUnchanged

\* generator.py 28, multicolor.py 36, simple_multicolor.py 286
StoreDimensions ==
    /\ \/ path = "multi" /\ pc = "called"
       \/ path # "multi" /\ pc = "surface"
    /\ LET shape == store_grid_dimensions(<<grid_rows, grid_cols>>,
                                          <<rows, cols>>)
       IN  /\ grid_rows' = shape[1]
           /\ grid_cols' = shape[2]
    /\ pc' = IF path = "multi" THEN "stored" ELSE "ready"
    /\ UNCHANGED <<rows, cols, z_norm, vertices, faces, path, log>>
    /\ SessionUnchanged

\* generator.py 25, multicolor.py 180, simple_multicolor.py 283
BuildSurface ==
    /\ \/ path = "multi" /\ pc = "stored"
       \/ path # "multi" /\ pc = "called"
    /\ LET m == create_surface_mesh(rows, cols, SessionZ)
       IN  /\ vertices' = m.vertices
           /\ faces' = m.faces
    /\ pc' = IF path = "multi" THEN "ready" ELSE "surface"
    /\ UNCHANGED <<rows, cols, z_norm, grid_rows, grid_cols, path, log>>
    /\ SessionUnchanged

\* generator.py 31 and 151, multicolor.py 181, simple_multicolor.py 289:
\* _add_base reads the cached dimensions
AddBaseFromCache ==
    /\ pc = "ready"
    /\ LET m == add_base(vertices, faces, grid_rows, grid_cols)
       IN  /\ vertices' = m.vertices
           /\ faces' = m.faces
    /\ pc' = "returned"
    /\ UNCHANGED <<rows, cols, z_norm, grid_rows, grid_cols, path, log>>
    /\ SessionUnchanged

SessionNext ==
    BeginCall \/ StoreDimensions \/ BuildSurface \/ AddBaseFromCache

SessionSpec == SessionInit /\ [][SessionNext]_vars

\* what a fresh instance returns for the call
FreshSolid ==
    LET surface == create_surface_mesh(rows, cols, SessionZ)
    IN  add_base(surface.vertices, surface.faces, rows, cols)

\* C22: in any sequence of calls on one instance, with grids of different
\* shapes, the cached dimensions are those of the current grid whenever
\* _add_base reads them, and each call returns what a fresh instance returns.
C22_NoStateAcrossCalls ==
    /\ pc = "ready" => grid_rows = rows /\ grid_cols = cols
    /\ pc = "returned" =>
           /\ vertices = FreshSolid.vertices
           /\ faces = FreshSolid.faces

\* a call has returned whose grid differs in shape from the call before
C22_Witness ==
    /\ pc = "returned"
    /\ log # << >>
    /\ log[1] # <<rows, cols>>
    /\ Len(vertices) = 2 * rows * cols
    /\ faces = FreshSolid.faces

----------------------------------------------------------------------------
(* The perimeter loop _add_base walks.                                      *)

\* the loop of the call that has just returned
BoundaryLoop == get_ordered_boundary_indices(grid_rows, grid_cols)

\* vertex v of the grid lies on its rim
OnRim(v) ==
    \/ (v \div grid_cols) \in {0, grid_rows - 1}
    \/ (v % grid_cols) \in {0, grid_cols - 1}

\* grid vertices u and v are neighbours along a row or a column
GridAdjacent(u, v) ==
    Abs((u \div grid_cols) - (v \div grid_cols))
        + Abs((u % grid_cols) - (v % grid_cols)) = 1

----------------------------------------------------------------------------
(* The cells under the shells of SimpleMultiColorMeshGenerator.             *)

\* the grid cells at which the mesh called name has a vertex
CellsOf(name) ==
    { <<meshes[name].vertices[n][1], meshes[name].vertices[n][2]>> :
        n \in 1 .. Len(meshes[name].vertices) }

\* C24: in SimpleMultiColorMeshGenerator the shell of band k has vertices
\* only at cells that assign_zone gives to band k, so no cell lies under
\* the shells of two bands.
C24_ShellOnlyOwnCells ==
    pc = "simple_done" =>
        /\ \A k \in 1 .. num_colors :
               LayerName(k) \in DOMAIN meshes =>
                   \A x \in CellsOf(LayerName(k)) : AssignZone(LayerZ[x]) = k
        /\ \A k, m \in 1 .. num_colors :
               ( /\ k # m
                 /\ LayerName(k) \in DOMAIN meshes
                 /\ LayerName(m) \in DOMAIN meshes )
                   => CellsOf(LayerName(k)) \cap CellsOf(LayerName(m)) = {}

----------------------------------------------------------------------------
(* The overlap of adjacent colour bands.                                    *)

\* C25: on every grid that is not flat, for N in 2..6 and either generator,
\* the upper bound of band k lies strictly above the lower bound of band
\* k + 1 for every k in 1 .. N - 1: adjacent bands share an interval of
\* positive width.
C25_BandsOverlap ==
    ( /\ Partitioned
      /\ GridMin(PartitionZ) < GridMax(PartitionZ)
      /\ num_colors >= 2 )
        => \A k \in 1 .. num_colors - 1 :
               ZoneMax(zones, k) > ZoneMin(zones, k + 1)

----------------------------------------------------------------------------
(* Height stepping in the generation main runs.  main picks its generator   *)
(* as in ChooseGenerator; MultiColorMeshGenerator, which main never picks,  *)
(* is the one generator that calls _apply_height_stepping.  The planar      *)
(* extent is taken to make scale_factor 1 mm per metre.                     *)

PipelineInit ==
    /\ rows \in 2 .. LayerMaxRows
    /\ cols \in 2 .. LayerMaxCols
    /\ z_norm = [x \in Cells(rows, cols) |-> 0]
    /\ colors_enabled \in BOOLEAN
    /\ num_colors = IF colors_enabled THEN 2 ELSE DefaultColors
    /\ pc = "validated"
    /\ vertices = << >>
    /\ faces = << >>
    /\ grid_rows = 0
    /\ grid_cols = 0
    /\ zones = << >>
    /\ footprint = NoMeshes
    /\ meshes = NoMeshes
    /\ path = "none"
    /\ layer_i = 0
    /\ log = << >>
    /\ output = {}
    /\ \E hs \in BOOLEAN, sh \in StepHeights, sm \in BOOLEAN,
          f \in {"stl", "3mf"} :
           config = [DefaultConfig EXCEPT !.hs_enabled = hs,
                                          !.step_height_mm = sh,
                                          !.smooth_transitions = sm,
                                          !.format = f]
    /\ grids = NoGrids
    /\ normalized = NotNormalized
    /\ elevation_grid \in ElevationGrids(rows, cols)
    /\ stepped = << >>
    /\ vertex_colors = NoColors
    /\ CacheIdle

\* the normalised Z grid of generate_mesh (generator.py 16-19) and of the
\* simple generator (simple_multicolor.py 18-19): exaggerate, then shift the
\* minimum to 0
normalized_z(eg, ve) ==
    [x \in DOMAIN eg |-> eg[x] * ve - GridMin(eg) * ve]

\* main lines 101-170 with MeshGenerator, ColoredMeshExporter or
\* SimpleMultiColorMeshGenerator: none of them steps the elevations
MainGenerate ==
    /\ pc = "chosen"
    /\ z_norm' = normalized_z(elevation_grid, config.vertical_exaggeration)
    /\ stepped' = stepped
    /\ log' = log \o << <<"main", path>>, <<"main", "export">> >>
    /\ pc' = "generated"
    /\ UNCHANGED <<rows, cols, num_colors, colors_enabled, vertices, faces,
                   grid_rows, grid_cols, zones, footprint, meshes, path,
                   layer_i, output, config, grids, normalized,
                   elevation_grid, vertex_colors,
                   cache_state>>

\* MultiColorMeshGenerator.generate_multi_color_meshes called directly,
\* lines 22-29: step when enabled, normalise, then exaggerate
MultiGenerateStepped ==
    /\ pc = "validated"
    /\ colors_enabled
    /\ path' = "multi"
    /\ IF config.hs_enabled
       THEN LET s2 == apply_height_stepping(elevation_grid, config)
            IN  /\ stepped' = s2
                /\ z_norm' = [x \in DOMAIN s2 |->
                                 ((s2[x] - GridMin(s2))
                                    * config.vertical_exaggeration) \div 2]
       ELSE /\ stepped' = stepped
            /\ z_norm' = normalized_z(elevation_grid,
                                      config.vertical_exaggeration)
    /\ log' = Append(log, <<"caller", "multi">>)
    /\ pc' = "generated"
    /\ UNCHANGED <<rows, cols, num_colors, colors_enabled, vertices, faces,
                   grid_rows, grid_cols, zones, footprint, meshes,
                   layer_i, output, config, grids, normalized,
                   elevation_grid, vertex_colors,
                   cache_state>>

PipelineNext == ChooseGenerator \/ MainGenerate \/ MultiGenerateStepped

PipelineSpec == PipelineInit /\ [][PipelineNext]_vars

\* C26: whenever height_stepping.enabled is set, the generation main runs
\* steps the elevations first and builds on the stepped grid: the Z grid of
\* the solids is the normalised, exaggerated stepped grid.
C26_MainStepsFirst ==
    ( /\ pc = "generated"
      /\ path # "multi"
      /\ config.hs_enabled )
        => /\ stepped = apply_height_stepping(elevation_grid, config)
           /\ \A x \in DOMAIN z_norm :
                  2 * z_norm[x] =
                      (stepped[x] - GridMin(stepped))
                          * config.vertical_exaggeration

----------------------------------------------------------------------------
(* The base solid of the layer generators.                                  *)

\* SolidBuilder over the whole height field the generator partitioned, with
\* Z floored to the base thickness in MultiColorMeshGenerator
ReferenceSolid ==
    LET z == IF pc = "multi_done"
             THEN [x \in DOMAIN LayerZ |->
                      IF LayerZ[x] > BaseThickness
                      THEN LayerZ[x] ELSE BaseThickness]
             ELSE LayerZ
        surface == create_surface_mesh(rows, cols, z)
    IN  add_base(surface.vertices, surface.faces, rows, cols)

\* C27: the base solid "layer00" of either layer generator has the vertex
\* list and the face list of SolidBuilder over the full height field: it
\* covers every grid cell whatever the bands, has 2 * rows * cols vertices,
\* vertex rows * cols + i being vertex i lowered to Z = 0, and
\* 4 * (rows - 1) * (cols - 1) + 4 * (rows + cols - 2) faces.
C27_BaseSolid ==
    LayersDone =>
        /\ "layer00" \in DOMAIN meshes
        /\ LET base == meshes["layer00"]
               n == rows * cols
           IN  /\ base.vertices = ReferenceSolid.vertices
               /\ base.faces = ReferenceSolid.faces
               /\ Len(base.vertices) = 2 * n
               /\ { <<base.vertices[i][1], base.vertices[i][2]>> :
                      i \in 1 .. n } = Cells(rows, cols)
               /\ \A i \in 1 .. n :
                      /\ base.vertices[i][3] = ReferenceSolid.vertices[i][3]
                      /\ base.vertices[i][3] >= GridMin(LayerZ)
                      /\ base.vertices[n + i] =
                             <<base.vertices[i][1], base.vertices[i][2], 0>>
               /\ Len(base.faces) =
                      4 * (rows - 1) * (cols - 1) + 4 * (rows + cols - 2)

\* sloped terrain in two bands: the base solid spans all six cells while the
\* shell of band 2 does not
C27_Witness ==
    /\ pc = "simple_done"
    /\ rows * cols = 6
    /\ num_colors = 2
    /\ "layer00" \in DOMAIN meshes
    /\ "layer02" \in DOMAIN meshes
    /\ Len(meshes["layer00"].vertices) = 12
    /\ Len(meshes["layer00"].faces) = 20
    /\ Len(meshes["layer02"].vertices) < 12

----------------------------------------------------------------------------
(* Shells without faces.                                                    *)

\* C28: every mesh in the output of generate_multi_color_meshes has at
\* least one face; a band whose included cells contain no grid quad with
\* all four corners included has no entry.
C28_NoFacelessShell ==
    LayersDone =>
        /\ \A name \in DOMAIN meshes : Len(meshes[name].faces) >= 1
        /\ \A k \in 1 .. num_colors :
               LayerName(k) \in DOMAIN meshes =>
                   Len(FullQuads(rows, cols, footprint[k])) >= 1

----------------------------------------------------------------------------
(* The elevation cache.  Angles are in millionths of a degree, elevations  *)
(* in metres.  A request is the triple fetch_elevation_grid is called      *)
(* with: the bounds, the resolution and the source its fetcher uses.  A    *)
(* meshgrid repeats its points along the other axis, so lat_grid and       *)
(* lon_grid are held as their points; elevation_grid is held row by row.   *)
(* None is the empty tuple.                                                *)

GoogleBatchSize == 500
OpenElevationBatchSize == 100
MetersPerLatDegree == 111320
MetersPerLonDegree == 85000

\* the requests made of the cache: one box 0.001 degrees wide asked of
\* both sources, and the same box at a coarser resolution
Requests ==
    LET box == [north |-> 1000, south |-> 0, east |-> 1000, west |-> 0]
    IN  { [bounds |-> box, resolution_meters |-> 30,
           api_source |-> "open_elevation"],
          [bounds |-> box, resolution_meters |-> 30,
           api_source |-> "google"],
          [bounds |-> box, resolution_meters |-> 90,
           api_source |-> "open_elevation"] }

\* variant: a key that leaves the source out
cache_key_without_source(req) ==
    <<req.bounds.north, req.bounds.south, req.bounds.east, req.bounds.west,
      req.resolution_meters>>

\* _generate_cache_key: the fields of key_data in the order of the format
\* string; the digest names a different file for different key_data
generate_cache_key(req) ==
    <<req.bounds.north, req.bounds.south, req.bounds.east, req.bounds.west,
      req.resolution_meters, req.api_source>>

\* variant: a lookup that never finds its entry
lookup_always_missing(files, key) ==
    [returned |-> << >>, files |-> files, found |-> "missing"]

\* get_cached_elevation on the directory `files`: what it returns, the
\* directory it leaves and what it found
get_cached_elevation(files, key) ==
    IF key \notin DOMAIN files
    THEN [returned |-> << >>, files |-> files, found |-> "missing"]
    ELSE IF files[key].readable
         THEN [returned |-> files[key].data, files |-> files,
               found |-> "readable"]
         ELSE [returned |-> << >>,
               files |-> [k \in DOMAIN files \ {key} |-> files[k]],
               found |-> "unreadable"]

\* cache_elevation_data on the directory `files`.  The write is inside a
\* try: open can raise and leave the file as it was, pickle.dump can raise
\* and leave a truncated file; both only print a warning.
cache_elevation_data(files, key, data, outcome) ==
    CASE outcome = "written" ->
             (key :> [readable |-> TRUE, data |-> data]) @@ files
      [] outcome = "open_failed" -> files
      [] outcome = "dump_failed" ->
             (key :> [readable |-> FALSE, data |-> << >>]) @@ files

\* _calculate_grid_points, for end > start
calculate_grid_points(start, end, resolution_meters, is_latitude) ==
    LET per_degree == IF is_latitude THEN MetersPerLatDegree
                      ELSE MetersPerLonDegree
        num_points ==
            Max2(2, ((end - start) * per_degree)
                        \div (resolution_meters * 1000000) + 1)
    IN  [i \in 1 .. num_points |-> linspace(start, end, num_points, i - 1)]

\* _fetch_with_google and _fetch_with_open_elevation: the locations row by
\* row in batches of batch_size; a batch of `failed` raised and its cells
\* are 0, the other cells hold the elevation the source reports
fetch_in_batches(num_lat, num_lon, batch_size, failed) ==
    [n \in 1 .. num_lat * num_lon |->
        IF ((n - 1) \div batch_size) \in failed THEN 0 ELSE 100 + n]

\* the batches of a request
Batches(req) ==
    LET num_lat == Len(calculate_grid_points(req.bounds.south,
                           req.bounds.north, req.resolution_meters, TRUE))
        num_lon == Len(calculate_grid_points(req.bounds.west,
                           req.bounds.east, req.resolution_meters, FALSE))
        batch_size == IF req.api_source = "google" THEN GoogleBatchSize
                      ELSE OpenElevationBatchSize
    IN  0 .. ((num_lat * num_lon - 1) \div batch_size)

\* fetch_elevation_grid lines 26-41: the three grids built on a miss
fetch_upstream(req, failed) ==
    LET lat_points == calculate_grid_points(req.bounds.south,
                          req.bounds.north, req.resolution_meters, TRUE)
        lon_points == calculate_grid_points(req.bounds.west,
                          req.bounds.east, req.resolution_meters, FALSE)
        batch_size == IF req.api_source = "google" THEN GoogleBatchSize
                      ELSE OpenElevationBatchSize
    IN  <<lat_points, lon_points,
          fetch_in_batches(Len(lat_points), Len(lon_points), batch_size,
                           failed)>>

CacheUnchanged ==
    UNCHANGED <<rows, cols, z_norm, num_colors, colors_enabled, pc, vertices,
                faces, grid_rows, grid_cols, zones, footprint, meshes, path,
                layer_i, log, output, config, grids, normalized,
                elevation_grid, stepped, vertex_colors>>

\* a caller looks a request up
GetCachedElevation ==
    \E req \in Requests :
        LET key == generate_cache_key(req)
            got == get_cached_elevation(cache_files, key)
        IN  /\ cache_files' = got.files
            /\ cache_call' = [NoCall EXCEPT !.op = "get", !.req = req,
                                            !.key = key,
                                            !.returned = got.returned,
                                            !.found = got.found]
            /\ UNCHANGED <<stored, zero_filled>>
            /\ CacheUnchanged

\* a caller stores grids of the request's shape
CacheElevationData ==
    \E req \in Requests :
    \E failed \in SUBSET Batches(req) :
    \E outcome \in {"written", "open_failed", "dump_failed"} :
        LET key == generate_cache_key(req)
            data == fetch_upstream(req, failed)
            before == IF req \in DOMAIN stored THEN stored[req]
                      ELSE [called |-> << >>, written |-> << >>,
                            intact |-> FALSE]
        IN  /\ cache_files' =
                   cache_elevation_data(cache_files, key, data, outcome)
            /\ stored' =
                   (req :> CASE outcome = "written" ->
                                    [called |-> data, written |-> data,
                                     intact |-> TRUE]
                             [] outcome = "open_failed" ->
                                    [before EXCEPT !.called = data]
                             [] outcome = "dump_failed" ->
                                    [before EXCEPT !.called = data,
                                                   !.intact = FALSE])
                   @@ stored
            /\ cache_call' = [NoCall EXCEPT !.op = "store", !.req = req,
                                            !.key = key,
                                            !.outcome = outcome]
            /\ UNCHANGED zero_filled
            /\ CacheUnchanged

\* clear_cache
ClearCache ==
    /\ cache_files' = << >>
    /\ stored' = << >>
    /\ cache_call' = [NoCall EXCEPT !.op = "clear"]
    /\ UNCHANGED zero_filled
    /\ CacheUnchanged

\* a file of the directory is damaged on disk: the entry pickle.load
\* raises on
DamageEntry ==
    \E key \in DOMAIN cache_files :
        /\ cache_files[key].readable
        /\ cache_files' =
               [cache_files EXCEPT ![key] =
                    [readable |-> FALSE, data |-> << >>]]
        /\ stored' = [req \in DOMAIN stored |->
                          IF generate_cache_key(req) = key
                          THEN [stored[req] EXCEPT !.intact = FALSE]
                          ELSE stored[req]]
        /\ cache_call' = [NoCall EXCEPT !.op = "damage", !.key = key]
        /\ UNCHANGED zero_filled
        /\ CacheUnchanged

CacheNext ==
    GetCachedElevation \/ CacheElevationData \/ ClearCache \/ DamageEntry

CacheSpec == SessionInit /\ [][CacheNext]_vars

\* C29 as stated: a lookup returns the grids of the last
\* cache_elevation_data call for its key since the last clear_cache, None
\* if there was none; this holds for every key after every call, so a store
\* under another key changes nothing; a lookup that found an unreadable
\* entry deleted it and returned None.
C29_AsStated ==
    /\ \A req \in Requests :
           LET key == generate_cache_key(req)
           IN  get_cached_elevation(cache_files, key).returned =
                   IF req \in DOMAIN stored THEN stored[req].called
                   ELSE << >>
    /\ cache_call.op = "get" /\ cache_call.found = "unreadable" =>
           /\ cache_call.key \notin DOMAIN cache_files
           /\ cache_call.returned = << >>

\* C29: a lookup returns the grids of the last cache_elevation_data call
\* for its key whose write completed, if that call came after the last
\* clear_cache and the entry has not become unreadable since (a damaged
\* file, a later write that broke off), and None otherwise; this holds for
\* every key after every call, so a store under another key changes
\* nothing; a lookup that found an unreadable entry deleted it and returned
\* None.
C29_ReadAfterWrite ==
    LET Expected(req) == IF req \in DOMAIN stored /\ stored[req].intact
                         THEN stored[req].written
                         ELSE << >>
    IN  /\ \A req \in Requests :
               get_cached_elevation(cache_files,
                                    generate_cache_key(req)).returned =
                   Expected(req)
        /\ cache_call.op = "get" =>
               /\ cache_call.returned = Expected(cache_call.req)
               /\ cache_call.found = "unreadable" =>
                      /\ cache_call.key \notin DOMAIN cache_files
                      /\ cache_call.returned = << >>

C29_Witness ==
    /\ cache_call.op = "get"
    /\ cache_call.found = "readable"
    /\ cache_call.returned = stored[cache_call.req].written
    /\ stored[cache_call.req].called # stored[cache_call.req].written
    /\ \E req \in DOMAIN stored :
           /\ req # cache_call.req
           /\ generate_cache_key(req) \in DOMAIN cache_files
           /\ ~cache_files[generate_cache_key(req)].readable

----------------------------------------------------------------------------
(* The fetcher in front of the cache.                                       *)

\* the requests made of the fetcher: a box 0.003 degrees wide at 30 m, 12
\* by 9 points in two batches of open-elevation, and a box 0.001 degrees
\* wide, 4 by 3 points in one batch of Google
FetchRequests ==
    { [bounds |-> [north |-> 3000, south |-> 0, east |-> 3000, west |-> 0],
       resolution_meters |-> 30, api_source |-> "open_elevation"],
      [bounds |-> [north |-> 1000, south |-> 0, east |-> 1000, west |-> 0],
       resolution_meters |-> 30, api_source |-> "google"] }

\* fetch_elevation_grid of a fetcher built with or without a cache; the
\* batches of `failed` raise, the write of the result ends as `outcome`
FetchElevationGrid ==
    \E req \in FetchRequests :
    \E cache_enabled \in BOOLEAN :
        LET key == generate_cache_key(req)
            got == get_cached_elevation(cache_files, key)
            call == [NoCall EXCEPT
                        !.op = "fetch", !.req = req, !.key = key,
                        !.cached = /\ key \in DOMAIN cache_files
                                   /\ cache_files[key].readable,
                        !.later = req \in DOMAIN zero_filled]
            before == IF req \in DOMAIN stored THEN stored[req]
                      ELSE [called |-> << >>, written |-> << >>,
                            intact |-> FALSE]
        IN  /\ IF cache_enabled /\ got.returned # << >>
               THEN /\ cache_call' = [call EXCEPT
                                         !.returned = got.returned,
                                         !.found = got.found]
                    /\ cache_files' = got.files
                    /\ UNCHANGED <<stored, zero_filled>>
               ELSE \E failed \in SUBSET Batches(req) :
                    LET data == fetch_upstream(req, failed)
                    IN  IF cache_enabled
                        THEN \E outcome \in {"written", "open_failed",
                                             "dump_failed"} :
                             /\ cache_call' =
                                    [call EXCEPT
                                        !.returned = data,
                                        !.found = got.found,
                                        !.requests =
                                            Cardinality(Batches(req)),
                                        !.outcome = outcome]
                             /\ cache_files' =
                                    cache_elevation_data(got.files, key,
                                                         data, outcome)
                             /\ stored' =
                                    (req :>
                                        CASE outcome = "written" ->
                                                 [called |-> data,
                                                  written |-> data,
                                                  intact |-> TRUE]
                                          [] outcome = "open_failed" ->
                                                 [before EXCEPT
                                                     !.called = data]
                                          [] outcome = "dump_failed" ->
                                                 [before EXCEPT
                                                     !.called = data,
                                                     !.intact = FALSE])
                                    @@ stored
                             /\ zero_filled' =
                                    IF /\ failed # {}
                                       /\ req \notin DOMAIN zero_filled
                                    THEN (req :> data) @@ zero_filled
                                    ELSE zero_filled
                        ELSE /\ cache_call' =
                                    [call EXCEPT
                                        !.returned = data,
                                        !.found = "disabled",
                                        !.requests =
                                            Cardinality(Batches(req))]
                             /\ UNCHANGED <<cache_files, stored,
                                            zero_filled>>
            /\ CacheUnchanged

FetchNext == FetchElevationGrid \/ ClearCache \/ DamageEntry

FetchSpec == SessionInit /\ [][FetchNext]_vars

====
